---- MODULE Spec2Model ----
(***************************************************************************)
(* Model of the video playback controller of the behavior annotator        *)
(* (scripts/behavior_annotator/video_player.py, class VideoPlayer).        *)
(*                                                                         *)
(* The controller is single-threaded: every public method and the timer    *)
(* callback runs to completion, so each is one action.  The methods are    *)
(* written as operators over a record p holding the fields of the object,  *)
(* the decoder session it drives and the signals emitted so far by the     *)
(* running operation; the actions apply them to the variables.             *)
(*                                                                         *)
(* Numbers: fps values are integers; the playback speed is kept in tenths  *)
(* (speed 1.0 is 10); a duration frame_count / fps is the exact fraction   *)
(* <<frame_count, fps>>.                                                   *)
(***************************************************************************)
EXTENDS Integers, Sequences, FiniteSets, TLC

\* ------------------------------------------------------------------ bounds
MaxFrames == 3
\* whole seconds of the times handed to format_timestamp
MaxSeconds == 61
\* frame numbers stamped by _emit_frame
MaxStampFrame == 989
\* most intervals the collection holds when one more is added by hand
MaxAnn == 2
\* frames of the videos the annotation window opens
MaxStoreFrames == 2

\* --------------------------------------------------------- program constants
DEFAULT_FALLBACK_FPS == 30
STATE_STOPPED == 0
STATE_PLAYING == 1
STATE_PAUSED == 2

\* ------------------------------------------------------------ input domains
\* frame counts a decoder may report (CAP_PROP_FRAME_COUNT), valid or not
FrameCountReports == -1..MaxFrames
\* frame rates a decoder may report (CAP_PROP_FPS); 0 stands for "unknown"
FpsReports == {0, 24}
\* arguments of seek: negative, in range, and past the end
SeekTargets == -1..(MaxFrames + 1)
\* arguments of set_speed, in tenths: below, inside and above [0.1, 10.0]
SpeedInputs == {0, 10, 150}
\* outcome of one decoder read: a frame, ret = False, or an exception
ReadOutcomes == {"ok", "fail", "raise"}
\* what load_video meets: a file that does not open (and reports nothing), one
\* that opens but reports no frames (nothing is read), or one that opens with
\* frames and whose first read has any outcome
LoadInputs ==
    {[opened |-> FALSE, rfps |-> 0, rfc |-> 0, rd |-> "ok"]}
    \cup [opened : {TRUE}, rfps : FpsReports,
          rfc : {n \in FrameCountReports : n <= 0}, rd : {"ok"}]
    \cup [opened : {TRUE}, rfps : FpsReports,
          rfc : {n \in FrameCountReports : n > 0}, rd : ReadOutcomes]

Max(a, b) == IF a >= b THEN a ELSE b
Min(a, b) == IF a <= b THEN a ELSE b

\* ------------------------------------------------------------------- state
VARIABLES
    video_capture,      \* "None", "Open" (isOpened()) or "Closed"
    fps,                \* _fps
    frame_count,        \* _frame_count
    duration_s,         \* _duration_s as the fraction <<num, den>>
    current_frame_no,   \* _current_frame_no
    playback_speed,     \* _playback_speed, in tenths
    playback_state,     \* _playback_state
    timer_active,       \* _video_timer.isActive()
    timer_interval,     \* _video_timer.interval(), ms
    decoder_pos,        \* position the decoder's next read() returns
    open_handles,       \* number of decoder sessions currently open
    events,             \* signals emitted by the last operation, in order
    peak_handles,       \* most decoder sessions open at once during it
    escaped,            \* the last operation let an exception propagate
    lastOp,             \* name of the last operation
    lastArg,            \* its argument (seek target, speed), else 0
    lastRd,             \* outcome of the decoder read it made, or "none"
    lastLoad,           \* what the decoder reported to the last load_video
    lastStateEv,        \* state carried by the latest playbackStateChanged
    run,                \* the uninterrupted playback run started by play()
    ts_in,              \* the time last handed to format_timestamp
    ts_out,             \* the string it returned, as a sequence of characters
    annotations,        \* AnnotationWindow.annotations
    current_start_frame,\* staged start frame: <<>> (None) or <<n>>
    current_end_frame,  \* staged end frame: <<>> (None) or <<n>>
    unsaved_changes,    \* the dirty flag
    current_video_path, \* <<>> (None) or <<path>>
    lastImport,         \* what the import of the last load read and returned
    written,            \* the file the last operation wrote, if it was an export
    marker_appended,    \* a refresh of the last operation appended the marker
    lastBehavior,       \* the behavior selected when add_annotation ran, else ""
    replaced,           \* the last operation was a load that found intervals
    video_frame_count,  \* AnnotationWindow._video_frame_count
    slider_is_pressed,  \* AnnotationWindow._slider_is_pressed
    slider_value,       \* video_slider.value()
    shown,              \* per frame event delivered by the last operation: its
                        \* index, the maximum index put on the label with it,
                        \* and the controller's frame count at that moment
    nested,             \* controller calls the last operation made from inside
                        \* the delivery of a frame event
    prompt              \* the answer given to the unsaved-changes question the
                        \* last operation asked, "none" if it asked none

vars == <<video_capture, fps, frame_count, duration_s, current_frame_no,
          playback_speed, playback_state, timer_active, timer_interval,
          decoder_pos, open_handles, events, peak_handles, escaped,
          lastOp, lastArg, lastRd, lastLoad, lastStateEv, run,
          ts_in, ts_out, annotations, current_start_frame,
          current_end_frame, unsaved_changes, current_video_path,
          lastImport, written, marker_appended, lastBehavior, replaced,
          video_frame_count, slider_is_pressed, slider_value, shown, nested,
          prompt>>

\* ------------------------------------------------------------------ signals
NoDur == <<0, 1>>
Ev(t, n, img, src, f, d) ==
    [t |-> t, n |-> n, img |-> img, src |-> src, fps |-> f, dur |-> d]
\* frameChanged(frame_no, timestamp, pixmap, hint): img is "img" for a decoded
\* image and "empty" for a null pixmap; src is the decoder position it was
\* read from (-1 when there is no image)
FrameEv(n, img, src) == Ev("frame", n, img, src, 0, NoDur)
StateEv(s) == Ev("state", s, "", -1, 0, NoDur)
LoadedEv(fc, f, d) == Ev("loaded", fc, "", -1, f, d)
LoadFailedEv == Ev("loadFailed", 0, "", -1, 0, NoDur)
ErrorEv == Ev("error", 0, "", -1, 0, NoDur)

\* ---------------------------------------------------------------- methods
is_ready(p) == p.cap = "Open"

\* variant: emits the signal without comparing with the current state
set_playback_state_always(p, state) ==
    [p EXCEPT !.state = state, !.out = Append(@, StateEv(state))]

set_playback_state(p, state) ==
    IF state # p.state
    THEN [p EXCEPT !.state = state, !.out = Append(@, StateEv(state))]
    ELSE p

emit_frame(p, frame_no, img, src) ==
    [p EXCEPT !.cur = frame_no, !.out = Append(@, FrameEv(frame_no, img, src))]

\* variant: stops the timer but leaves the state at Playing
pause_keeps_state(p) ==
    IF ~is_ready(p) \/ p.state # STATE_PLAYING
    THEN p
    ELSE [p EXCEPT !.timer = FALSE]

pause(p) ==
    IF ~is_ready(p) \/ p.state # STATE_PLAYING
    THEN p
    ELSE set_playback_state([p EXCEPT !.timer = FALSE], STATE_PAUSED)

\* variant: a failed read reports the requested frame, not the previous one
read_and_emit_frame_fail_target(p, frame_no, rd) ==
    IF ~is_ready(p) THEN p
    ELSE IF rd = "raise" THEN [p EXCEPT !.exc = TRUE, !.rd = rd]
    ELSE IF rd = "ok"
    THEN LET q == emit_frame([p EXCEPT !.pos = @ + 1, !.rd = rd],
                             frame_no, "img", p.pos)
         IN  IF frame_no >= q.fc - 1 /\ q.state = STATE_PLAYING
             THEN pause(q) ELSE q
    ELSE LET q == IF p.state = STATE_PLAYING THEN pause(p) ELSE p
         IN  emit_frame([q EXCEPT !.rd = rd], frame_no, "empty", -1)

\* variant: a failed read during playback does not pause
read_and_emit_frame_nopause(p, frame_no, rd) ==
    IF ~is_ready(p) THEN p
    ELSE IF rd = "raise" THEN [p EXCEPT !.exc = TRUE, !.rd = rd]
    ELSE IF rd = "ok"
    THEN LET q == emit_frame([p EXCEPT !.pos = @ + 1, !.rd = rd],
                             frame_no, "img", p.pos)
         IN  IF frame_no >= q.fc - 1 /\ q.state = STATE_PLAYING
             THEN pause(q) ELSE q
    ELSE emit_frame([p EXCEPT !.rd = rd], p.cur, "empty", -1)

read_and_emit_frame(p, frame_no, rd) ==
    IF ~is_ready(p) THEN p
    ELSE IF rd = "raise" THEN [p EXCEPT !.exc = TRUE, !.rd = rd]
    ELSE IF rd = "ok"
    THEN LET q == emit_frame([p EXCEPT !.pos = @ + 1, !.rd = rd],
                             frame_no, "img", p.pos)
         IN  IF frame_no >= q.fc - 1 /\ q.state = STATE_PLAYING
             THEN pause(q) ELSE q
    ELSE LET q == IF p.state = STATE_PLAYING THEN pause(p) ELSE p
         IN  emit_frame([q EXCEPT !.rd = rd], q.cur, "empty", -1)

\* variant: labels the frame read by the timer two past the current one
advance_frame_skip(p, rd) ==
    IF ~is_ready(p) \/ p.state # STATE_PLAYING
    THEN [p EXCEPT !.timer = FALSE]
    ELSE IF p.cur < p.fc - 1
         THEN read_and_emit_frame(p, p.cur + 2, rd)
         ELSE pause(p)

advance_frame(p, rd) ==
    IF ~is_ready(p) \/ p.state # STATE_PLAYING
    THEN [p EXCEPT !.timer = FALSE]
    ELSE IF p.cur < p.fc - 1
         THEN read_and_emit_frame(p, p.cur + 1, rd)
         ELSE pause(p)

\* variant: clamps the target at 0 only, not at the last frame
seek_noclamp(p, frame_no, rd) ==
    IF ~is_ready(p) THEN p
    ELSE LET target_frame == Max(0, frame_no)
             q == read_and_emit_frame([p EXCEPT !.pos = target_frame],
                                      target_frame, rd)
         IN  IF q.exc
             THEN [q EXCEPT !.exc = FALSE, !.out = Append(@, ErrorEv)]
             ELSE q

\* variant: pauses playback before it positions the decoder
seek_pausing(p, frame_no, rd) ==
    IF ~is_ready(p) THEN p
    ELSE LET target_frame == Max(0, Min(frame_no, p.fc - 1))
             q == read_and_emit_frame([pause(p) EXCEPT !.pos = target_frame],
                                      target_frame, rd)
         IN  IF q.exc
             THEN [q EXCEPT !.exc = FALSE, !.out = Append(@, ErrorEv)]
             ELSE q

seek(p, frame_no, rd) ==
    IF ~is_ready(p) THEN p
    ELSE LET target_frame == Max(0, Min(frame_no, p.fc - 1))
             q == read_and_emit_frame([p EXCEPT !.pos = target_frame],
                                      target_frame, rd)
         IN  IF q.exc
             THEN [q EXCEPT !.exc = FALSE, !.out = Append(@, ErrorEv)]
             ELSE q

\* variant: forgets to reset the position
release_keeps_position(p) ==
    LET a == [p EXCEPT !.timer = FALSE]
        b == IF a.cap = "Open" THEN [a EXCEPT !.handles = @ - 1] ELSE a
        c == [b EXCEPT !.cap = "None", !.fc = 0, !.dur = NoDur,
                       !.fps = DEFAULT_FALLBACK_FPS, !.pos = 0]
    IN  set_playback_state(c, STATE_STOPPED)

\* variant: resets the fields but leaves the playback state as it was
release_keeps_state(p) ==
    LET a == [p EXCEPT !.timer = FALSE]
        b == IF a.cap = "Open" THEN [a EXCEPT !.handles = @ - 1] ELSE a
    IN  [b EXCEPT !.cap = "None", !.fc = 0, !.dur = NoDur,
                  !.fps = DEFAULT_FALLBACK_FPS, !.cur = -1, !.pos = 0]

release(p) ==
    LET a == [p EXCEPT !.timer = FALSE]
        b == IF a.cap = "Open" THEN [a EXCEPT !.handles = @ - 1] ELSE a
        c == [b EXCEPT !.cap = "None", !.fc = 0, !.dur = NoDur,
                       !.fps = DEFAULT_FALLBACK_FPS, !.cur = -1, !.pos = 0]
    IN  set_playback_state(c, STATE_STOPPED)

\* variant: reports the failure without cleaning up
load_failed_norelease(p) == [p EXCEPT !.out = Append(@, LoadFailedEv)]

\* the except branch of load_video
load_failed(p) ==
    LET r == release(p) IN [r EXCEPT !.out = Append(@, LoadFailedEv)]

\* cv2.VideoCapture(path): a new decoder session, open or not
open_capture(p, opened) ==
    IF opened
    THEN [p EXCEPT !.cap = "Open", !.handles = @ + 1,
                   !.peak = Max(@, p.handles + 1), !.pos = 0]
    ELSE [p EXCEPT !.cap = "Closed"]

valid_fps(reported) == IF reported <= 0 THEN DEFAULT_FALLBACK_FPS ELSE reported

\* variant: opens the new file without releasing the previous video
load_video_norelease(p, opened, rfps, rfc, rd) ==
    LET c == open_capture(p, opened)
    IN  IF ~is_ready(c) THEN load_failed(c)
        ELSE LET f == [c EXCEPT !.fps = valid_fps(rfps), !.fc = rfc]
             IN  IF f.fc <= 0 THEN load_failed(f)
                 ELSE LET d == [f EXCEPT !.dur = <<f.fc, f.fps>>]
                          s == set_playback_state(seek(d, 0, rd), STATE_PAUSED)
                      IN  [s EXCEPT !.out =
                                 Append(@, LoadedEv(s.fc, s.fps, s.dur))]

load_video(p, opened, rfps, rfc, rd) ==
    LET c == open_capture(release(p), opened)
    IN  IF ~is_ready(c) THEN load_failed(c)
        ELSE LET f == [c EXCEPT !.fps = valid_fps(rfps), !.fc = rfc]
             IN  IF f.fc <= 0 THEN load_failed(f)
                 ELSE LET d == [f EXCEPT !.dur = <<f.fc, f.fps>>]
                          s == set_playback_state(seek(d, 0, rd), STATE_PAUSED)
                      IN  [s EXCEPT !.out =
                                 Append(@, LoadedEv(s.fc, s.fps, s.dur))]

\* variant: rounds the quotient to the nearest integer instead of truncating
timer_interval_ms_round(f, speed) ==
    Max(10, IF f > 0 THEN (2 * 10000 + f * speed) \div (2 * f * speed) ELSE 40)

timer_interval_ms(f, speed) ==
    Max(10, IF f > 0 THEN 10000 \div (f * speed) ELSE 40)

\* variant: does not check that a video is open
play_noready(p, rd) ==
    IF p.state = STATE_PLAYING THEN p
    ELSE LET a == IF p.cur >= p.fc - 1 THEN seek(p, 0, rd) ELSE p
             b == [a EXCEPT !.timer = TRUE,
                            !.interval = timer_interval_ms(a.fps, a.speed)]
         IN  set_playback_state(b, STATE_PLAYING)

\* variant: starts the timer at the last frame without seeking to frame 0
play_norestart(p, rd) ==
    IF ~is_ready(p) \/ p.state = STATE_PLAYING THEN p
    ELSE LET b == [p EXCEPT !.timer = TRUE,
                            !.interval = timer_interval_ms(p.fps, p.speed)]
         IN  set_playback_state(b, STATE_PLAYING)

play(p, rd) ==
    IF ~is_ready(p) \/ p.state = STATE_PLAYING THEN p
    ELSE LET a == IF p.cur >= p.fc - 1 THEN seek(p, 0, rd) ELSE p
             b == [a EXCEPT !.timer = TRUE,
                            !.interval = timer_interval_ms(a.fps, a.speed)]
         IN  set_playback_state(b, STATE_PLAYING)

\* variant: stores the speed but leaves the running timer at its old interval
set_speed_stale(p, speed) == [p EXCEPT !.speed = Max(1, Min(speed, 100))]

set_speed(p, speed) ==
    LET a == [p EXCEPT !.speed = Max(1, Min(speed, 100))]
    IN  IF a.state = STATE_PLAYING
        THEN [a EXCEPT !.interval = timer_interval_ms(a.fps, a.speed)]
        ELSE a

\* variant: steps without pausing first
next_frame_nopause(p, rd) ==
    IF ~is_ready(p) THEN p
    ELSE LET next_f == Min(p.cur + 1, p.fc - 1)
         IN  IF next_f # p.cur THEN seek(p, next_f, rd) ELSE p

next_frame(p, rd) ==
    IF ~is_ready(p) THEN p
    ELSE LET a == IF p.state = STATE_PLAYING THEN pause(p) ELSE p
             next_f == Min(a.cur + 1, a.fc - 1)
         IN  IF next_f # a.cur THEN seek(a, next_f, rd) ELSE a

prev_frame(p, rd) ==
    IF ~is_ready(p) THEN p
    ELSE LET a == IF p.state = STATE_PLAYING THEN pause(p) ELSE p
             prev_f == Max(a.cur - 1, 0)
         IN  IF prev_f # a.cur THEN seek(a, prev_f, rd) ELSE a

\* ------------------------------------------------------------ timestamps
\* A time is the exact fraction num / den of a second, or not a number.
Time(num, den) == [nan |-> FALSE, num |-> num, den |-> den]
NaN == [nan |-> TRUE, num |-> 0, den |-> 1]
NoTime == [nan |-> FALSE, num |-> 0, den |-> 1]

DigitChars == <<"0", "1", "2", "3", "4", "5", "6", "7", "8", "9">>
RECURSIVE Digits(_)
Digits(n) ==
    IF n < 10 THEN <<DigitChars[n + 1]>>
    ELSE Append(Digits(n \div 10), DigitChars[(n % 10) + 1])
RECURSIVE ZeroPad(_, _)
\* the format specs 02d and 03d: at least width digits, never fewer than needed
ZeroPad(ds, width) ==
    IF Len(ds) >= width THEN ds ELSE ZeroPad(<<"0">> \o ds, width)

\* round(a / b) for a >= 0, b > 0, ties to the even integer
RoundHalfEven(a, b) ==
    LET q == a \div b
        r == a % b
    IN  IF 2 * r < b THEN q
        ELSE IF 2 * r > b THEN q + 1
        ELSE IF q % 2 = 0 THEN q ELSE q + 1

Sentinel == <<"-", "-", ":", "-", "-", ":", "-", "-", ".", "-", "-", "-">>

format_timestamp(time) ==
    IF time.nan THEN Sentinel
    ELSE LET num == IF time.num < 0 THEN 0 ELSE time.num
             den == time.den
             whole == num \div den
             m0 == whole \div 60
             s == whole % 60
             h == m0 \div 60
             m == m0 % 60
             ms == RoundHalfEven(1000 * (num % den), den)
         IN  ZeroPad(Digits(h), 2) \o <<":">> \o ZeroPad(Digits(m), 2)
                 \o <<":">> \o ZeroPad(Digits(s), 2) \o <<".">>
                 \o ZeroPad(Digits(ms), 3)

\* the timestamp _emit_frame puts in a frame event: frame_no / fps, the rate
\* being the fraction fn / fd
frame_timestamp(frame_no, fn, fd) ==
    IF fn > 0 /\ frame_no >= 0
    THEN format_timestamp(Time(frame_no * fd, fn))
    ELSE Sentinel

\* ------------------------------------------------- variables <-> record
\* the object as an operation finds it: nothing emitted yet
Self ==
    [cap |-> video_capture, fps |-> fps, fc |-> frame_count,
     dur |-> duration_s, cur |-> current_frame_no, speed |-> playback_speed,
     state |-> playback_state, timer |-> timer_active,
     interval |-> timer_interval, pos |-> decoder_pos,
     handles |-> open_handles, peak |-> open_handles,
     out |-> <<>>, exc |-> FALSE, rd |-> "none"]

StateEvs(out) == SelectSeq(out, LAMBDA e : e.t = "state")
FrameEvs(out) == SelectSeq(out, LAMBDA e : e.t = "frame")
EvsOf(out, t) == SelectSeq(out, LAMBDA e : e.t = t)

\* ------------------------------------------------------- annotation store
\* (scripts/behavior_annotator/annotation_window.py, class AnnotationWindow)
\* The window's handlers are operators over a record w: the interval list
\* ann, the staged markers cs and ce, the dirty flag, the video path, the
\* value ret the last helper returned, and the player p it drives.
None == <<>>
Some(x) == <<x>>
Val(o) == o[1]

Interval(b, s, e) == [Behavior |-> b, Start_Frame |-> s, End_Frame |-> e]
VIDEO_END == "video_end"

\* an annotation file: absent, without data, without a required column, or
\* with rows of cells
File(kind, rows) == [kind |-> kind, rows |-> rows]
NoFile == File("none", <<>>)
NoImport == [file |-> NoFile, ret |-> FALSE, dialog |-> "none", ann |-> <<>>]

\* a CSV cell of a frame column: an integer, or text int() rejects
Cell(n) == [ok |-> TRUE, v |-> n]
BadCell == [ok |-> FALSE, v |-> 0]
\* str(row['Behavior']): read_csv turns an empty cell into NaN, and str(NaN)
\* is 'nan'
str_behavior(cell) == IF cell = "" THEN "nan" ELSE cell

HasMarker(ann) == \E i \in 1..Len(ann) : ann[i].Behavior = VIDEO_END

\* variant: appends the terminal marker whether or not one is present
update_annotation_table_always(w) ==
    IF w.ann = <<>> THEN w
    ELSE LET last_frame == w.p.fc - 1
         IN  [w EXCEPT !.ann =
                  Append(@, Interval(VIDEO_END, last_frame, last_frame)),
                       !.appended = TRUE]

\* appended notes that the marker was added
update_annotation_table(w) ==
    IF w.ann = <<>> THEN w
    ELSE IF ~HasMarker(w.ann)
         THEN LET last_frame == w.p.fc - 1
              IN  [w EXCEPT !.ann =
                       Append(@, Interval(VIDEO_END, last_frame, last_frame)),
                            !.appended = TRUE]
         ELSE w

\* variant: a row with a negative bound or start > end ends the loop
RECURSIVE import_rows_stop(_)
import_rows_stop(rows) ==
    IF rows = <<>> THEN [err |-> FALSE, ann |-> <<>>]
    ELSE LET row == Head(rows)
             rest == import_rows_stop(Tail(rows))
             behavior == str_behavior(row.Behavior)
         IN  IF ~row.Start_Frame.ok \/ ~row.End_Frame.ok
             THEN [err |-> TRUE, ann |-> <<>>]
             ELSE IF rest.err THEN rest
             ELSE IF \/ row.Start_Frame.v < 0
                     \/ row.End_Frame.v < 0
                     \/ row.Start_Frame.v > row.End_Frame.v
                  THEN [err |-> FALSE, ann |-> <<>>]
             ELSE IF behavior = "" THEN rest
             ELSE [err |-> FALSE,
                   ann |-> <<Interval(behavior, row.Start_Frame.v,
                                      row.End_Frame.v)>> \o rest.ann]

\* the loop over the rows of the file: err when int() raised on some row
RECURSIVE import_rows(_)
import_rows(rows) ==
    IF rows = <<>> THEN [err |-> FALSE, ann |-> <<>>]
    ELSE LET row == Head(rows)
             rest == import_rows(Tail(rows))
             behavior == str_behavior(row.Behavior)
         IN  IF ~row.Start_Frame.ok \/ ~row.End_Frame.ok
             THEN [err |-> TRUE, ann |-> <<>>]
             ELSE IF rest.err THEN rest
             ELSE IF \/ row.Start_Frame.v < 0
                     \/ row.End_Frame.v < 0
                     \/ row.Start_Frame.v > row.End_Frame.v
                  THEN rest
             ELSE IF behavior = "" THEN rest
             ELSE [err |-> FALSE,
                   ann |-> <<Interval(behavior, row.Start_Frame.v,
                                      row.End_Frame.v)>> \o rest.ann]

\* variant: a file without the required columns is taken for a missing file
import_annotations_lenient(w, file) ==
    LET done(ann, ret, dialog) ==
            [w EXCEPT !.ann = ann, !.ret = ret, !.dialog = dialog,
                      !.imp = [file |-> file, ret |-> ret,
                               dialog |-> dialog, ann |-> ann]]
    IN  IF w.path = None THEN done(w.ann, FALSE, "none")
        ELSE IF file.kind \in {"absent", "empty", "nocols"}
             THEN done(<<>>, FALSE, "none")
        ELSE IF file.kind \in {"unreadable"}
             THEN done(<<>>, FALSE, "warning")
        ELSE LET r == import_rows(file.rows)
             IN  IF r.err THEN done(<<>>, FALSE, "warning")
                 ELSE done(r.ann, TRUE, "none")

\* imp records the call: the file read, the value returned, the dialog shown
\* and the list the call left in annotations
import_annotations(w, file) ==
    LET done(ann, ret, dialog) ==
            [w EXCEPT !.ann = ann, !.ret = ret, !.dialog = dialog,
                      !.imp = [file |-> file, ret |-> ret,
                               dialog |-> dialog, ann |-> ann]]
    IN  IF w.path = None THEN done(w.ann, FALSE, "none")
        ELSE IF file.kind \in {"absent", "empty"}
             THEN done(<<>>, FALSE, "none")
        ELSE IF file.kind \in {"unreadable", "nocols"}
             THEN done(<<>>, FALSE, "warning")
        ELSE LET r == import_rows(file.rows)
             IN  IF r.err THEN done(<<>>, FALSE, "warning")
                 ELSE done(r.ann, TRUE, "none")

\* The player's signals are direct connections: a slot runs inside the emit,
\* before the controller method that emitted returns. delivering is set while
\* the slots of the frame events of one controller call run; a controller
\* call a slot makes then is counted in nested.
RECURSIVE deliver_frames(_)

on_slider_value_changed(w, position, rd) ==
    IF w.p.fc <= 0 THEN w
    ELSE IF w.pressed
         THEN IF w.delivering THEN [w EXCEPT !.nested = @ + 1]
              ELSE deliver_frames([w EXCEPT !.p = seek(@, position, rd)])
         ELSE w

\* QSlider.setValue: valueChanged is emitted when the value changes and the
\* slider's signals are not blocked
slider_set_value(w, value, blocked, rd) ==
    LET a == [w EXCEPT !.slider = value]
    IN  IF blocked \/ value = w.slider THEN a
        ELSE on_slider_value_changed(a, value, rd)

\* variant: moves the slider while it is held, without blocking its signals
handle_frame_changed_unguarded(w, ev) ==
    LET a == slider_set_value(w, ev.n, FALSE, "none")
    IN  [a EXCEPT !.shown = Append(@, [n |-> ev.n,
                                       max |-> Max(0, a.vfc - 1),
                                       fc |-> a.p.fc])]

handle_frame_changed(w, ev) ==
    LET a == IF ~w.pressed THEN slider_set_value(w, ev.n, TRUE, "none")
             ELSE w
    IN  [a EXCEPT !.shown = Append(@, [n |-> ev.n,
                                       max |-> Max(0, a.vfc - 1),
                                       fc |-> a.p.fc])]

RECURSIVE deliver_from(_, _)
deliver_from(w, evs) ==
    IF evs = <<>> THEN w
    ELSE deliver_from(handle_frame_changed(w, Head(evs)), Tail(evs))

deliver_frames(w) ==
    [deliver_from([w EXCEPT !.delivering = TRUE], FrameEvs(w.p.out))
        EXCEPT !.delivering = FALSE]

on_slider_pressed(w) ==
    IF w.p.fc <= 0 THEN w
    ELSE [w EXCEPT !.pressed = TRUE,
                   !.p = IF @.state = STATE_PLAYING THEN pause(@) ELSE @]

on_slider_released(w, rd) ==
    IF w.p.fc <= 0 THEN w
    ELSE deliver_frames([w EXCEPT !.pressed = FALSE,
                                  !.p = seek(@, w.slider, rd)])

toggle_play_pause(w, rd) ==
    IF w.p.fc <= 0 THEN w
    ELSE IF w.p.state = STATE_PLAYING
         THEN deliver_frames([w EXCEPT !.p = pause(@)])
         ELSE deliver_frames([w EXCEPT !.p = play(@, rd)])

handle_video_loaded(w, file) ==
    LET c == [w EXCEPT !.ann = <<>>, !.dirty = FALSE,
                       !.cs = None, !.ce = None, !.vfc = w.p.fc]
        t == update_annotation_table(import_annotations(c, file))
    IN  [t EXCEPT !.dirty = FALSE]

handle_video_load_failed(w) == [w EXCEPT !.path = None, !.vfc = 0]

\* variant: _load_video leaves the previous video's intervals in place
load_video_window_keep(w, path, in, file) ==
    LET c == update_annotation_table(
                 [w EXCEPT !.path = Some(path), !.held = w.ann # <<>>])
        d == deliver_frames(
                 [c EXCEPT !.cs = None, !.ce = None,
                           !.p = load_video(c.p, in.opened, in.rfps, in.rfc,
                                            in.rd)])
    IN  IF EvsOf(d.p.out, "loaded") # <<>> THEN handle_video_loaded(d, file)
        ELSE IF EvsOf(d.p.out, "loadFailed") # <<>>
             THEN handle_video_load_failed(d)
        ELSE d

\* _load_video, with the slot the player's signal runs before it returns
load_video_window(w, path, in, file) ==
    LET c == update_annotation_table(
                 [w EXCEPT !.path = Some(path), !.ann = <<>>,
                           !.dirty = FALSE, !.held = w.ann # <<>>])
        d == deliver_frames(
                 [c EXCEPT !.cs = None, !.ce = None,
                           !.p = load_video(c.p, in.opened, in.rfps, in.rfc,
                                            in.rd)])
    IN  IF EvsOf(d.p.out, "loaded") # <<>> THEN handle_video_loaded(d, file)
        ELSE IF EvsOf(d.p.out, "loadFailed") # <<>>
             THEN handle_video_load_failed(d)
        ELSE d

mark_start(w) ==
    IF w.p.fc <= 0 THEN w
    ELSE IF w.p.cur >= 0
         THEN [w EXCEPT !.cs = Some(w.p.cur),
                        !.ce = IF @ # None /\ w.p.cur > Val(@)
                               THEN None ELSE @]
         ELSE w

\* variant: stores the end frame without comparing it with the staged start
mark_end_unchecked(w) ==
    IF w.p.fc <= 0 THEN w
    ELSE IF w.p.cur >= 0 THEN [w EXCEPT !.ce = Some(w.p.cur)]
    ELSE w

mark_end(w) ==
    IF w.p.fc <= 0 THEN w
    ELSE IF w.p.cur >= 0
         THEN IF w.cs # None /\ w.p.cur < Val(w.cs) THEN w
              ELSE [w EXCEPT !.ce = Some(w.p.cur)]
         ELSE w

\* variant: leaves the markers staged after adding
add_annotation_keeps_markers(w, behavior) ==
    IF w.p.fc <= 0 THEN w
    ELSE IF behavior = "" THEN w
    ELSE IF w.cs = None THEN w
    ELSE IF w.ce = None THEN w
    ELSE IF Val(w.cs) > Val(w.ce) THEN w
    ELSE update_annotation_table(
             [w EXCEPT !.ann = Append(@, Interval(behavior, Val(w.cs),
                                                  Val(w.ce))),
                       !.dirty = TRUE])

add_annotation(w, behavior) ==
    IF w.p.fc <= 0 THEN w
    ELSE IF behavior = "" THEN w
    ELSE IF w.cs = None THEN w
    ELSE IF w.ce = None THEN w
    ELSE IF Val(w.cs) > Val(w.ce) THEN w
    ELSE LET a == [w EXCEPT !.ann = Append(@, Interval(behavior, Val(w.cs),
                                                        Val(w.ce))),
                            !.dirty = TRUE]
         IN  [update_annotation_table(a) EXCEPT !.cs = None, !.ce = None]

\* variant: a table edit is only checked for start <= end
on_table_item_changed_norange(w, original_index, col, cell) ==
    IF ~(1 <= original_index /\ original_index <= Len(w.ann))
    THEN update_annotation_table(w)
    ELSE LET old == w.ann[original_index]
             start_frame == IF col = "start" THEN cell.v ELSE old.Start_Frame
             end_frame == IF col = "end" THEN cell.v ELSE old.End_Frame
         IN  IF ~cell.ok THEN update_annotation_table(w)
             ELSE IF start_frame > end_frame THEN update_annotation_table(w)
             ELSE IF start_frame # old.Start_Frame
                     \/ end_frame # old.End_Frame
                  THEN [update_annotation_table(
                            [w EXCEPT !.ann[original_index] =
                                 Interval(old.Behavior, start_frame,
                                          end_frame)])
                        EXCEPT !.dirty = TRUE]
             ELSE w

\* variant: stores the new bounds without setting the dirty flag
on_table_item_changed_clean(w, original_index, col, cell) ==
    IF ~(1 <= original_index /\ original_index <= Len(w.ann))
    THEN update_annotation_table(w)
    ELSE LET old == w.ann[original_index]
             max_frame == w.p.fc - 1
             start_frame == IF col = "start" THEN cell.v ELSE old.Start_Frame
             end_frame == IF col = "end" THEN cell.v ELSE old.End_Frame
         IN  IF ~cell.ok THEN update_annotation_table(w)
             ELSE IF ~(/\ 0 <= start_frame /\ start_frame <= max_frame
                       /\ 0 <= end_frame /\ end_frame <= max_frame)
                  THEN update_annotation_table(w)
             ELSE IF start_frame > end_frame THEN update_annotation_table(w)
             ELSE update_annotation_table(
                      [w EXCEPT !.ann[original_index] =
                           Interval(old.Behavior, start_frame, end_frame)])

\* the other cell of the row is read back from the table, which shows the
\* interval as the last refresh rendered it
on_table_item_changed(w, original_index, col, cell) ==
    IF ~(1 <= original_index /\ original_index <= Len(w.ann))
    THEN update_annotation_table(w)
    ELSE LET old == w.ann[original_index]
             max_frame == w.p.fc - 1
             start_frame == IF col = "start" THEN cell.v ELSE old.Start_Frame
             end_frame == IF col = "end" THEN cell.v ELSE old.End_Frame
         IN  IF ~cell.ok THEN update_annotation_table(w)
             ELSE IF ~(/\ 0 <= start_frame /\ start_frame <= max_frame
                       /\ 0 <= end_frame /\ end_frame <= max_frame)
                  THEN update_annotation_table(w)
             ELSE IF start_frame > end_frame THEN update_annotation_table(w)
             ELSE IF start_frame # old.Start_Frame
                     \/ end_frame # old.End_Frame
                  THEN [update_annotation_table(
                            [w EXCEPT !.ann[original_index] =
                                 Interval(old.Behavior, start_frame,
                                          end_frame)])
                        EXCEPT !.dirty = TRUE]
             ELSE w

RemoveAt(seq, i) == SubSeq(seq, 1, i - 1) \o SubSeq(seq, i + 1, Len(seq))

\* variant: removes the interval without marking the collection dirty
remove_annotation_nodirty(w, original_index, reply) ==
    IF ~(1 <= original_index /\ original_index <= Len(w.ann)) THEN w
    ELSE IF reply = "Yes"
         THEN update_annotation_table(
                  [w EXCEPT !.ann = RemoveAt(@, original_index)])
         ELSE w

remove_annotation(w, original_index, reply) ==
    IF ~(1 <= original_index /\ original_index <= Len(w.ann)) THEN w
    ELSE IF reply = "Yes"
         THEN update_annotation_table(
                  [w EXCEPT !.ann = RemoveAt(@, original_index),
                            !.dirty = TRUE])
         ELSE w

\* the orders sort_values(by 'Start Frame') may leave the rows in: ascending
\* by start frame, rows with equal start frames in any order
SortedOrders(ann) ==
    {o \in [1..Len(ann) -> 1..Len(ann)] :
        /\ \A i, j \in 1..Len(ann) : i # j => o[i] # o[j]
        /\ \A i, j \in 1..Len(ann) :
               i < j => ann[o[i]].Start_Frame <= ann[o[j]].Start_Frame}

\* variant: the end column holds the frame after the interval
csv_rows_exclusive(ann, order) ==
    [i \in 1..Len(ann) |->
        Interval(ann[order[i]].Behavior, Cell(ann[order[i]].Start_Frame),
                 Cell(ann[order[i]].End_Frame + 1))]

\* the rows to_csv writes, the derived duration column left out
csv_rows(ann, order) ==
    [i \in 1..Len(ann) |->
        Interval(ann[order[i]].Behavior, Cell(ann[order[i]].Start_Frame),
                 Cell(ann[order[i]].End_Frame))]

\* variant: the terminal marker is not written
export_annotations_nomarker(w, outcome, order) ==
    IF w.ann = <<>> THEN [w EXCEPT !.ret = FALSE, !.dialog = "information"]
    ELSE IF w.path = None THEN [w EXCEPT !.ret = FALSE, !.dialog = "warning"]
    ELSE IF outcome # "ok" THEN [w EXCEPT !.ret = FALSE, !.dialog = "critical"]
    ELSE [w EXCEPT !.written =
                       File("rows",
                            SelectSeq(csv_rows(w.ann, order),
                                      LAMBDA r : r.Behavior # VIDEO_END)),
                   !.dirty = FALSE, !.ret = TRUE, !.dialog = "information"]

\* outcome: "ok", or the directory cannot be made, or the file not written
export_annotations(w, outcome, order) ==
    IF w.ann = <<>> THEN [w EXCEPT !.ret = FALSE, !.dialog = "information"]
    ELSE IF w.path = None THEN [w EXCEPT !.ret = FALSE, !.dialog = "warning"]
    ELSE IF outcome = "mkdir_fails"
         THEN [w EXCEPT !.ret = FALSE, !.dialog = "critical"]
    ELSE IF outcome = "write_fails"
         THEN [w EXCEPT !.ret = FALSE, !.dialog = "critical"]
    ELSE [w EXCEPT !.written = File("rows", csv_rows(w.ann, order)),
                   !.dirty = FALSE, !.ret = TRUE, !.dialog = "information"]

\* variant: goes on after a Save whose export failed
check_unsaved_changes_lenient(w, reply, outcome, order) ==
    IF ~w.dirty THEN [w EXCEPT !.ret = TRUE]
    ELSE IF w.path = None THEN [w EXCEPT !.ret = TRUE]
    ELSE IF reply = "Save"
         THEN [export_annotations(w, outcome, order)
                  EXCEPT !.prompt = reply, !.ret = TRUE]
    ELSE IF reply = "Discard"
         THEN [w EXCEPT !.dirty = FALSE, !.ret = TRUE, !.prompt = reply]
    ELSE [w EXCEPT !.ret = FALSE, !.prompt = reply]

\* ret is the value returned: True when the caller may go on
check_unsaved_changes(w, reply, outcome, order) ==
    IF ~w.dirty THEN [w EXCEPT !.ret = TRUE]
    ELSE IF w.path = None THEN [w EXCEPT !.ret = TRUE]
    ELSE IF reply = "Save"
         THEN [export_annotations(w, outcome, order) EXCEPT !.prompt = reply]
    ELSE IF reply = "Discard"
         THEN [w EXCEPT !.dirty = FALSE, !.ret = TRUE, !.prompt = reply]
    ELSE [w EXCEPT !.ret = FALSE, !.prompt = reply]

\* the dropdown entry chosen is the placeholder or a video of the folder
PLACEHOLDER == "Select a video..."
on_video_selected(w, selected, reply, outcome, order, in, file) ==
    IF selected # PLACEHOLDER
    THEN IF Some(selected) # w.path
         THEN LET c == check_unsaved_changes(w, reply, outcome, order)
              IN  IF ~c.ret THEN c
                  ELSE load_video_window(c, selected, in, file)
         ELSE w
    ELSE LET c == IF w.path # None
                  THEN check_unsaved_changes(w, reply, outcome, order)
                  ELSE [w EXCEPT !.ret = TRUE]
         IN  IF ~c.ret THEN c
             ELSE update_annotation_table(
                      [c EXCEPT !.p = release(@), !.vfc = 0, !.path = None,
                                !.ann = <<>>, !.dirty = FALSE])

\* a folder other than the selected one is chosen
select_folder(w, reply, outcome, order) ==
    LET c == IF w.path # None
             THEN check_unsaved_changes(w, reply, outcome, order)
             ELSE [w EXCEPT !.ret = TRUE]
    IN  IF ~c.ret THEN c
        ELSE update_annotation_table(
                 [c EXCEPT !.p = release(@), !.vfc = 0, !.path = None,
                           !.ann = <<>>])

\* arguments of on_video_selected that the branch taken does not read
NoOpen == [opened |-> FALSE, rfps |-> 0, rfc |-> 0, rd |-> "ok"]

\* the blind-mode box refills the dropdown with its signals blocked and then
\* selects the entry of the current video again, if the folder still has it
populate_video_dropdown(w, found) ==
    IF w.path # None /\ found
    THEN on_video_selected(w, Val(w.path), "Cancel", "ok", <<>>, NoOpen,
                           NoFile)
    ELSE w

closeEvent(w, reply, outcome, order) ==
    LET c == check_unsaved_changes(w, reply, outcome, order)
    IN  IF ~c.ret THEN c ELSE [c EXCEPT !.p = release(@)]

CommitPlayer(q, op, arg) ==
    /\ video_capture' = q.cap
    /\ fps' = q.fps
    /\ frame_count' = q.fc
    /\ duration_s' = q.dur
    /\ current_frame_no' = q.cur
    /\ playback_speed' = q.speed
    /\ playback_state' = q.state
    /\ timer_active' = q.timer
    /\ timer_interval' = q.interval
    /\ decoder_pos' = q.pos
    /\ open_handles' = q.handles
    /\ events' = q.out
    /\ peak_handles' = q.peak
    /\ escaped' = q.exc
    /\ lastOp' = op
    /\ lastArg' = arg
    /\ lastRd' = q.rd
    /\ lastStateEv' = IF StateEvs(q.out) # <<>>
                      THEN StateEvs(q.out)[Len(StateEvs(q.out))].n
                      ELSE lastStateEv

StoreIdle ==
    UNCHANGED <<annotations, current_start_frame, current_end_frame,
                unsaved_changes, current_video_path, lastImport, written,
                marker_appended, lastBehavior, replaced, video_frame_count,
                slider_is_pressed, slider_value, shown, nested, prompt>>

Commit(q, op, arg) ==
    /\ CommitPlayer(q, op, arg)
    /\ UNCHANGED <<ts_in, ts_out>>
    /\ StoreIdle

NoLoad == [opened |-> FALSE, rfps |-> 0, rfc |-> 0]
NoRun == [on |-> FALSE, from |-> -1, ticks |-> 0, clean |-> FALSE]

\* ------------------------------------------------------------------ actions
Init ==
    /\ video_capture = "None"
    /\ fps = DEFAULT_FALLBACK_FPS
    /\ frame_count = 0
    /\ duration_s = NoDur
    /\ current_frame_no = -1
    /\ playback_speed = 10
    /\ playback_state = STATE_STOPPED
    /\ timer_active = FALSE
    /\ timer_interval = 0
    /\ decoder_pos = 0
    /\ open_handles = 0
    /\ events = <<>>
    /\ peak_handles = 0
    /\ escaped = FALSE
    /\ lastOp = "init"
    /\ lastArg = 0
    /\ lastRd = "none"
    /\ lastLoad = NoLoad
    /\ lastStateEv = -1
    /\ run = NoRun
    /\ ts_in = NoTime
    /\ ts_out = <<>>
    /\ annotations = <<>>
    /\ current_start_frame = None
    /\ current_end_frame = None
    /\ unsaved_changes = FALSE
    /\ current_video_path = None
    /\ lastImport = NoImport
    /\ written = NoFile
    /\ marker_appended = FALSE
    /\ lastBehavior = ""
    /\ replaced = FALSE
    /\ video_frame_count = 0
    /\ slider_is_pressed = FALSE
    /\ slider_value = 0
    /\ shown = <<>>
    /\ nested = 0
    /\ prompt = "none"

Load ==
    \E in \in LoadInputs :
        /\ Commit(load_video(Self, in.opened, in.rfps, in.rfc, in.rd),
                  "load", 0)
        /\ lastLoad' = [opened |-> in.opened, rfps |-> in.rfps,
                        rfc |-> in.rfc]
        /\ run' = NoRun

Release ==
    /\ Commit(release(Self), "release", 0)
    /\ lastLoad' = NoLoad
    /\ run' = NoRun

Seek ==
    \E f \in SeekTargets, rd \in ReadOutcomes :
        /\ Commit(seek(Self, f, rd), "seek", f)
        /\ lastLoad' = NoLoad
        /\ run' = NoRun

Play ==
    \E rd \in ReadOutcomes :
        LET q == play(Self, rd) IN
        /\ Commit(q, "play", 0)
        /\ lastLoad' = NoLoad
        /\ run' = IF video_capture = "Open" /\ playback_state # STATE_PLAYING
                  THEN [on |-> TRUE, from |-> current_frame_no, ticks |-> 0,
                        clean |-> q.rd \in {"none", "ok"}]
                  ELSE NoRun

Pause ==
    /\ Commit(pause(Self), "pause", 0)
    /\ lastLoad' = NoLoad
    /\ run' = NoRun

SetSpeed ==
    \E s \in SpeedInputs :
        /\ Commit(set_speed(Self, s), "set_speed", s)
        /\ lastLoad' = NoLoad
        /\ run' = NoRun

NextFrame ==
    \E rd \in ReadOutcomes :
        /\ Commit(next_frame(Self, rd), "next_frame", 0)
        /\ lastLoad' = NoLoad
        /\ run' = NoRun

PrevFrame ==
    \E rd \in ReadOutcomes :
        /\ Commit(prev_frame(Self, rd), "prev_frame", 0)
        /\ lastLoad' = NoLoad
        /\ run' = NoRun

\* the QTimer timeout: fires only while the timer is armed
Tick ==
    /\ timer_active
    /\ \E rd \in ReadOutcomes :
        LET q == advance_frame(Self, rd) IN
        /\ Commit(q, "tick", 0)
        /\ lastLoad' = NoLoad
        /\ run' = IF run.on /\ run.clean
                  THEN [run EXCEPT !.ticks = @ + 1,
                                   !.clean = q.rd \in {"none", "ok"}]
                  ELSE NoRun

Next ==
    \/ Load
    \/ Release
    \/ Seek
    \/ Play
    \/ Pause
    \/ SetSpeed
    \/ NextFrame
    \/ PrevFrame
    \/ Tick

Spec == Init /\ [][Next]_vars

\* playback left alone: the user acts only while the controller is not
\* Playing, and the armed timer keeps firing ticks whose read returns
UserOp ==
    \/ Load
    \/ Release
    \/ Seek
    \/ Play
    \/ Pause
    \/ SetSpeed
    \/ NextFrame
    \/ PrevFrame

TickReturns == Tick /\ lastRd' # "raise"

NextPlay ==
    \/ playback_state # STATE_PLAYING /\ UserOp
    \/ Tick

SpecPlay == Init /\ [][NextPlay]_vars /\ WF_vars(TickReturns)

\* ---------------------------------------------- timestamps on their own
\* times in ten-thousandths of a second: whole seconds up to MaxSeconds and
\* around the hour, with fractions below and above the rounding points (a
\* fraction ending in 5 is left out: its rounding depends on the float)
TimeInputs ==
    {w * 10000 + f : w \in (0..MaxSeconds) \cup {3599, 3600, 3661},
                     f \in {0, 4, 4996, 9994, 9996}} \cup {-10000, -4}
\* frame rates as fractions: 30, 30000/1001 (29.97) and an unknown rate
RateInputs == {<<30, 1>>, <<30000, 1001>>, <<0, 1>>}

ControllerIdle ==
    UNCHANGED <<video_capture, fps, frame_count, duration_s, current_frame_no,
                playback_speed, playback_state, timer_active, timer_interval,
                decoder_pos, open_handles, events, peak_handles, escaped,
                lastArg, lastRd, lastLoad, lastStateEv, run>>

\* each behaviour formats one time: the function keeps no state
FormatTime ==
    \E time \in {Time(t, 10000) : t \in TimeInputs} \cup {NaN} :
        /\ ts_out = <<>>
        /\ ts_in' = time
        /\ ts_out' = format_timestamp(time)
        /\ lastOp' = "format_timestamp"
        /\ ControllerIdle
        /\ StoreIdle

StampFrame ==
    \E frame_no \in -1..MaxStampFrame, rate \in RateInputs :
        /\ ts_out = <<>>
        /\ ts_in' = IF rate[1] > 0 /\ frame_no >= 0
                    THEN Time(frame_no * rate[2], rate[1]) ELSE NaN
        /\ ts_out' = frame_timestamp(frame_no, rate[1], rate[2])
        /\ lastOp' = "emit_frame"
        /\ ControllerIdle
        /\ StoreIdle

NextTs ==
    \/ FormatTime
    \/ StampFrame

SpecTs == Init /\ [][NextTs]_vars

\* ------------------------------------------ the window and its annotations
Window ==
    [ann |-> annotations, cs |-> current_start_frame,
     ce |-> current_end_frame, dirty |-> unsaved_changes,
     path |-> current_video_path, ret |-> FALSE, dialog |-> "none",
     imp |-> NoImport, written |-> NoFile, appended |-> FALSE,
     behavior |-> "", held |-> FALSE, vfc |-> video_frame_count,
     pressed |-> slider_is_pressed, slider |-> slider_value,
     shown |-> <<>>, nested |-> 0, delivering |-> FALSE, prompt |-> "none",
     p |-> Self]

CommitWindow(w, op, arg) ==
    /\ CommitPlayer(w.p, op, arg)
    /\ annotations' = w.ann
    /\ current_start_frame' = w.cs
    /\ current_end_frame' = w.ce
    /\ unsaved_changes' = w.dirty
    /\ current_video_path' = w.path
    /\ lastImport' = w.imp
    /\ written' = w.written
    /\ marker_appended' = w.appended
    /\ lastBehavior' = w.behavior
    /\ replaced' = w.held
    /\ video_frame_count' = w.vfc
    /\ slider_is_pressed' = w.pressed
    /\ slider_value' = w.slider
    /\ shown' = w.shown
    /\ nested' = w.nested
    /\ prompt' = w.prompt
    /\ run' = NoRun
    /\ UNCHANGED <<ts_in, ts_out>>

Videos == {"a.mp4"}
\* videos the window opens: one that does not open, and one of MaxStoreFrames
\* frames whose first read succeeds or fails
AnnLoadInputs ==
    {[opened |-> FALSE, rfps |-> 0, rfc |-> 0, rd |-> "ok"]}
    \cup [opened : {TRUE}, rfps : {24}, rfc : {MaxStoreFrames},
          rd : {"ok", "fail"}]

\* rows an annotation file may hold: a valid one, one ending past the last
\* frame of every video opened, an inverted one, a negative one, one without
\* behavior, one whose start is not a number, and an exported terminal marker
ValidRow == Interval("rearing", Cell(0), Cell(1))
RowInputs ==
    {ValidRow,
     Interval("attack", Cell(1), Cell(MaxStoreFrames)),
     Interval("rearing", Cell(1), Cell(0)),
     Interval("rearing", Cell(-1), Cell(0)),
     Interval("", Cell(0), Cell(0)),
     Interval("rearing", BadCell, Cell(1)),
     Interval(VIDEO_END, Cell(0), Cell(0))}
\* a file with an inverted row between two valid ones
MixedFile ==
    File("rows", <<Interval("attack", Cell(0), Cell(0)),
                   Interval("rearing", Cell(1), Cell(0)), ValidRow>>)
FileInputs ==
    {File("absent", <<>>), File("empty", <<>>), File("nocols", <<>>),
     File("rows", <<>>)}
    \cup {File("rows", <<r>>) : r \in RowInputs}
    \cup {File("rows", <<r, ValidRow>>) : r \in RowInputs \ {ValidRow}}
    \cup {MixedFile}
BehaviorInputs == {"", "rearing"}
\* what is typed into a frame cell: text that is no number, and the first and
\* last frame with the numbers just outside them
CellInputs ==
    {BadCell, Cell(-1), Cell(0), Cell(MaxStoreFrames - 1),
     Cell(MaxStoreFrames)}

\* the file found is any of FileInputs, or the one an export has just written
OpenVideo ==
    \E path \in Videos, in \in AnnLoadInputs,
       file \in FileInputs \cup (IF written = NoFile THEN {} ELSE {written}) :
        /\ CommitWindow(load_video_window(Window, path, in, file),
                        "load_video", 0)
        /\ lastLoad' = [opened |-> in.opened, rfps |-> in.rfps,
                        rfc |-> in.rfc]

\* the slider and the go-to box, moved to the first or the last frame
GoTo ==
    \E f \in {0, MaxStoreFrames - 1} :
        /\ CommitWindow(IF frame_count <= 0 THEN Window
                        ELSE deliver_frames(
                                 [Window EXCEPT !.p = seek(@, f, "ok")]),
                        "seek", f)
        /\ lastLoad' = NoLoad

MarkStart ==
    /\ CommitWindow(mark_start(Window), "mark_start", 0)
    /\ lastLoad' = NoLoad

MarkEnd ==
    /\ CommitWindow(mark_end(Window), "mark_end", 0)
    /\ lastLoad' = NoLoad

AddAnnotation ==
    \E behavior \in BehaviorInputs :
        /\ Len(annotations) < MaxAnn
        /\ CommitWindow(add_annotation([Window EXCEPT !.behavior = behavior],
                                       behavior),
                        "add_annotation", 0)
        /\ lastLoad' = NoLoad

EditCell ==
    \E i \in 1..Len(annotations), col \in {"start", "end"},
       cell \in CellInputs :
        /\ CommitWindow(on_table_item_changed(Window, i, col, cell),
                        "on_table_item_changed", 0)
        /\ lastLoad' = NoLoad

RemoveAnnotation ==
    \E i \in 1..Len(annotations), reply \in {"Yes", "No"} :
        /\ CommitWindow(remove_annotation(Window, i, reply),
                        "remove_annotation", 0)
        /\ lastLoad' = NoLoad

ExportOutcomes == {"ok", "mkdir_fails", "write_fails"}

Export ==
    \E outcome \in ExportOutcomes, order \in SortedOrders(annotations) :
        /\ CommitWindow(export_annotations(Window, outcome, order),
                        "export", 0)
        /\ lastLoad' = NoLoad

NextAnn ==
    \/ OpenVideo
    \/ GoTo
    \/ MarkStart
    \/ MarkEnd
    \/ AddAnnotation
    \/ EditCell
    \/ RemoveAnnotation

SpecAnn == Init /\ [][NextAnn]_vars

\* ------------------------------------------- the annotations and their file
\* collections as imports, table edits and removals leave them, exported and
\* read back; the staging of new intervals is left to SpecAnn
\* ---------------------------------------- the player's controls in the window
\* a video without an annotation file is opened, or fails to open
OpenBare == OpenVideo /\ lastImport'.file.kind \in {"absent", "none"}

UiReadOutcomes == {"ok", "fail"}

SliderPressed ==
    /\ ~slider_is_pressed
    /\ CommitWindow(on_slider_pressed(Window), "slider_pressed", 0)
    /\ lastLoad' = NoLoad

\* the held slider is dragged to a position of its range
SliderMoved ==
    /\ slider_is_pressed
    /\ \E position \in 0..Max(0, video_frame_count - 1),
          rd \in UiReadOutcomes :
           /\ CommitWindow(slider_set_value(Window, position, FALSE, rd),
                           "slider_moved", position)
           /\ lastLoad' = NoLoad

SliderReleased ==
    /\ slider_is_pressed
    /\ \E rd \in UiReadOutcomes :
           /\ CommitWindow(on_slider_released(Window, rd),
                           "slider_released", 0)
           /\ lastLoad' = NoLoad

TogglePlayPause ==
    \E rd \in UiReadOutcomes :
        /\ CommitWindow(toggle_play_pause(Window, rd), "toggle_play_pause", 0)
        /\ lastLoad' = NoLoad

StepFrame ==
    \E rd \in UiReadOutcomes, forward \in BOOLEAN :
        /\ CommitWindow(deliver_frames(
                            [Window EXCEPT !.p = IF forward
                                                 THEN next_frame(@, rd)
                                                 ELSE prev_frame(@, rd)]),
                        IF forward THEN "next_frame" ELSE "prev_frame", 0)
        /\ lastLoad' = NoLoad

\* the QTimer timeout with the window's slots connected
UiTick ==
    /\ timer_active
    /\ \E rd \in UiReadOutcomes :
           /\ CommitWindow(deliver_frames(
                               [Window EXCEPT !.p = advance_frame(@, rd)]),
                           "tick", 0)
           /\ lastLoad' = NoLoad

NextUi ==
    \/ OpenBare
    \/ SliderPressed
    \/ SliderMoved
    \/ SliderReleased
    \/ TogglePlayPause
    \/ StepFrame
    \/ UiTick

SpecUi == Init /\ [][NextUi]_vars

\* ------------------------------------------- leaving the video that is open
SwitchVideos == {"a.mp4", "b.mp4"}
SwitchFiles == {File("absent", <<>>), File("rows", <<ValidRow>>)}
Replies == {"Save", "Discard", "Cancel"}
\* the window was closed: closeEvent accepted the event
Closed ==
    /\ lastOp = "close"
    /\ prompt \in {"none", "Discard"} \/ written # NoFile

SelectVideo ==
    \E selected \in SwitchVideos, reply \in Replies,
       outcome \in ExportOutcomes, order \in SortedOrders(annotations),
       in \in AnnLoadInputs, file \in SwitchFiles :
        /\ CommitWindow(on_video_selected(Window, selected, reply, outcome,
                                          order, in, file),
                        "select_video", 0)
        /\ lastLoad' = [opened |-> in.opened, rfps |-> in.rfps,
                        rfc |-> in.rfc]

SelectPlaceholder ==
    \E reply \in Replies, outcome \in ExportOutcomes,
       order \in SortedOrders(annotations) :
        /\ CommitWindow(on_video_selected(Window, PLACEHOLDER, reply, outcome,
                                          order, NoOpen, NoFile),
                        "select_placeholder", 0)
        /\ lastLoad' = NoLoad

SelectFolder ==
    \E reply \in Replies, outcome \in ExportOutcomes,
       order \in SortedOrders(annotations) :
        /\ CommitWindow(select_folder(Window, reply, outcome, order),
                        "select_folder", 0)
        /\ lastLoad' = NoLoad

BlindToggled ==
    \E found \in BOOLEAN :
        /\ CommitWindow(populate_video_dropdown(Window, found),
                        "blind_toggled", 0)
        /\ lastLoad' = NoLoad

Close ==
    \E reply \in Replies, outcome \in ExportOutcomes,
       order \in SortedOrders(annotations) :
        /\ CommitWindow(closeEvent(Window, reply, outcome, order), "close", 0)
        /\ lastLoad' = NoLoad

NextSwitch ==
    \/ ~Closed /\ SelectVideo
    \/ ~Closed /\ SelectPlaceholder
    \/ ~Closed /\ SelectFolder
    \/ ~Closed /\ BlindToggled
    \/ ~Closed /\ Close
    \/ ~Closed /\ EditCell
    \/ ~Closed /\ RemoveAnnotation

SpecSwitch == Init /\ [][NextSwitch]_vars

NextExport ==
    \/ OpenVideo
    \/ EditCell
    \/ RemoveAnnotation
    \/ Export

SpecExport == Init /\ [][NextExport]_vars


\* ------------------------------------------------------------------ claims
Clamp(f, lo, hi) == Max(lo, Min(f, hi))
Loaded == video_capture = "Open"
FrameNos == [i \in 1..Len(FrameEvs(events)) |-> FrameEvs(events)[i].n]

\* C1 (as stated): on a loaded video with frame_count >= 1, after seek(f)
\* returns, current_frame_no = max(0, min(f, frame_count - 1)), for every f.
C1_SeekAlwaysClamps ==
    (lastOp = "seek" /\ Loaded /\ frame_count >= 1)
        => current_frame_no = Clamp(lastArg, 0, frame_count - 1)

\* C1 (amended): on a loaded video, seek(f) whose decoder read succeeds
\* leaves current_frame_no = max(0, min(f, frame_count - 1)), for every f;
\* a seek whose read fails or raises leaves current_frame_no as it was.
C1_SeekClamps ==
    [][(lastOp' = "seek" /\ Loaded)
        => IF lastRd' = "ok"
           THEN current_frame_no' = Clamp(lastArg', 0, frame_count - 1)
           ELSE current_frame_no' = current_frame_no]_vars

\* C1 witness: a seek past the end that landed on the last frame
C1_Witness ==
    /\ lastOp = "seek" /\ lastRd = "ok" /\ frame_count >= 2
    /\ lastArg > frame_count - 1
    /\ current_frame_no = frame_count - 1

\* part of C2 that holds as stated: a tick that emits the last frame pauses
\* and disarms the timer, and no frame event has an index past the last frame
C2_EndOfStream ==
    /\ (lastOp = "tick" /\ FrameNos # <<>> /\ FrameNos[1] = frame_count - 1
            /\ events[1].img = "img")
        => (playback_state = STATE_PAUSED /\ ~timer_active)
    /\ \A i \in 1..Len(FrameNos) : FrameNos[i] <= frame_count - 1

\* C2 (as stated): after play() at k < frame_count - 1 and no other
\* operation, the i-th tick emits one frame event, with index k + i; the
\* last frame pauses playback; no index exceeds frame_count - 1.
C2_EveryTickEmitsNext ==
    /\ (lastOp = "tick" /\ run.on /\ run.from < frame_count - 1)
        => FrameNos = <<run.from + run.ticks>>
    /\ C2_EndOfStream

\* C2 (amended): after play() at k < frame_count - 1 and no other operation,
\* as long as every decoder read has succeeded the i-th tick emits one frame
\* event, a decoded image with index k + i; a tick whose read fails emits the
\* previous index k + i - 1 with an empty image and pauses, and one whose
\* read raises emits nothing; the last frame pauses playback and disarms the
\* timer; no index exceeds frame_count - 1.
C2_MonotonicPlayback ==
    /\ (lastOp = "tick" /\ run.on /\ run.from < frame_count - 1)
        => CASE lastRd = "ok" ->
                    /\ FrameNos = <<run.from + run.ticks>>
                    /\ events[1].img = "img"
             [] lastRd = "fail" ->
                    /\ FrameNos = <<run.from + run.ticks - 1>>
                    /\ events[Len(events)].img = "empty"
                    /\ playback_state = STATE_PAUSED /\ ~timer_active
             [] OTHER -> events = <<>>
    /\ C2_EndOfStream

\* C2 witness: two ticks after play() at frame 0 reached the last frame of a
\* three-frame video and playback paused itself
C2_Witness ==
    /\ lastOp = "tick" /\ run.on /\ run.clean
    /\ run.from = 0 /\ run.ticks = 2 /\ frame_count = 3
    /\ FrameNos = <<2>> /\ playback_state = STATE_PAUSED /\ ~timer_active

\* C3 (as stated): play() while paused at the last frame first emits a frame
\* event for index 0 and only then the state change to Playing; the ticks
\* that follow emit 1, 2, ...
C3_AlwaysRestartsAtZero ==
    /\ (lastOp = "play" /\ run.on /\ run.from = frame_count - 1)
        => /\ Len(events) = 2
           /\ events[1].t = "frame" /\ events[1].n = 0
           /\ events[2] = StateEv(STATE_PLAYING)
    /\ (lastOp = "tick" /\ run.on /\ run.from = frame_count - 1)
        => FrameNos = <<run.ticks>>

\* C3 (amended): play() while paused at the last frame, when its decoder
\* read succeeds, first emits a frame event for index 0 and only then the
\* state change to Playing, and while the reads succeed the ticks that follow
\* emit 1, 2, ... up to frame_count - 1 (on a one-frame video the first tick
\* emits nothing and pauses); when the read in play() fails the frame event
\* carries the old index frame_count - 1 with an empty image, and when it
\* raises an error event takes its place; playback starts in each case.
C3_RestartOnReplay ==
    /\ (lastOp = "play" /\ run.on /\ run.from = frame_count - 1)
        => /\ Len(events) = 2
           /\ events[2] = StateEv(STATE_PLAYING)
           /\ playback_state = STATE_PLAYING
           /\ CASE lastRd = "ok" -> events[1] = FrameEv(0, "img", 0)
                [] lastRd = "fail" ->
                       events[1] = FrameEv(frame_count - 1, "empty", -1)
                [] OTHER -> events[1] = ErrorEv
    /\ (lastOp = "tick" /\ run.on /\ run.from = frame_count - 1
            /\ lastRd = "ok")
        => (FrameNos = <<run.ticks>> /\ run.ticks <= frame_count - 1)
    /\ (lastOp = "tick" /\ run.on /\ run.from = frame_count - 1
            /\ frame_count = 1)
        => (FrameNos = <<>> /\ playback_state = STATE_PAUSED)

\* C3 witness: replay from the end of a three-frame video, two ticks later
C3_Witness ==
    /\ lastOp = "tick" /\ run.on /\ run.clean
    /\ frame_count = 3 /\ run.from = 2 /\ run.ticks = 2
    /\ FrameNos = <<2>>

StateNos(out) == [i \in 1..Len(StateEvs(out)) |-> StateEvs(out)[i].n]
Distinct(seq) == \A i \in 1..(Len(seq) - 1) : seq[i] # seq[i + 1]

\* C4: over any sequence of operations a playbackStateChanged event is
\* emitted only when the state changes: the states carried by the events of
\* an operation, preceded by the state before it, never repeat and end in
\* the state after it; no two consecutive events, also across operations,
\* carry the same state; pause() while Playing emits exactly one, and a
\* second pause() right after it none.
C4_StateChangeDedup ==
    [][LET ns == StateNos(events') IN
       /\ Distinct(<<playback_state>> \o ns)
       /\ (<<playback_state>> \o ns)[Len(ns) + 1] = playback_state'
       /\ (lastStateEv # -1 => Distinct(<<lastStateEv>> \o ns))
       /\ (lastOp' = "pause" /\ playback_state = STATE_PLAYING)
            => ns = <<STATE_PAUSED>>
       /\ (lastOp' = "pause" /\ lastOp = "pause") => ns = <<>>]_vars

\* C4 witness: a pause() that found the controller already paused
C4_Witness ==
    /\ lastOp = "pause" /\ events = <<>>
    /\ playback_state = STATE_PAUSED /\ lastStateEv = STATE_PAUSED

\* C5: while a video is loaded current_frame_no is in [0, frame_count - 1],
\* and current_frame_no = -1 exactly when no video is loaded, failed decoder
\* reads included.
C5_PositionInRange ==
    /\ Loaded => (0 <= current_frame_no /\ current_frame_no <= frame_count - 1)
    /\ (current_frame_no = -1) <=> ~Loaded

\* C6: between operations, Playing implies that the timer is armed.
C6_PlayingImpliesTimer ==
    playback_state = STATE_PLAYING => timer_active

\* C6 witness: still playing, timer armed, after a timer tick
C6_Witness ==
    lastOp = "tick" /\ playback_state = STATE_PLAYING /\ timer_active

\* C7: between operations the state is Stopped iff no decoder handle is
\* open; after a successful load it is Paused or Playing, after release or a
\* failed load it is Stopped.
C7_StoppedIffNoHandle ==
    /\ (playback_state = STATE_STOPPED) <=> ~Loaded
    /\ (playback_state = STATE_STOPPED) <=> (open_handles = 0)
    /\ Loaded => playback_state \in {STATE_PAUSED, STATE_PLAYING}
    /\ (lastOp = "load" /\ EvsOf(events, "loaded") # <<>>)
        => (Loaded /\ playback_state = STATE_PAUSED)
    /\ (lastOp = "release" \/ (lastOp = "load" /\ EvsOf(events, "loadFailed") # <<>>))
        => (video_capture = "None" /\ playback_state = STATE_STOPPED)

\* C7 witness: a failed load of a second file left the controller Stopped
\* with no handle
C7_Witness ==
    /\ lastOp = "load" /\ events = <<StateEv(STATE_STOPPED), LoadFailedEv>>
    /\ playback_state = STATE_STOPPED /\ open_handles = 0

\* the events of a load after the state change of the release it starts with
LoadEvents ==
    IF events # <<>> /\ events[1] = StateEv(STATE_STOPPED)
    THEN Tail(events) ELSE events

\* C8: a successful load emits, in order, a frame event for index 0, the
\* state change to Paused and the loaded event (frame_count, fps,
\* frame_count / fps), fps being the reported rate when > 0 and else 30;
\* afterwards the state is Paused and current_frame_no = 0.
C8_LoadSuccessEvents ==
    (lastOp = "load" /\ EvsOf(events, "loaded") # <<>>)
        => LET f == IF lastLoad.rfps > 0 THEN lastLoad.rfps ELSE 30 IN
           /\ Len(LoadEvents) = 3
           /\ LoadEvents[1].t = "frame" /\ LoadEvents[1].n = 0
           /\ LoadEvents[2] = StateEv(STATE_PAUSED)
           /\ LoadEvents[3] = LoadedEv(lastLoad.rfc, f, <<lastLoad.rfc, f>>)
           /\ playback_state = STATE_PAUSED
           /\ current_frame_no = 0

\* C9: a load whose file does not open or whose reported frame count is <= 0
\* emits exactly one load-failed event, no loaded event and no frame event,
\* and leaves no handle open, state Stopped, frame_count = 0 and
\* current_frame_no = -1, whether or not a video was loaded before.
C9_LoadFailure ==
    (lastOp = "load" /\ (~lastLoad.opened \/ lastLoad.rfc <= 0))
        => /\ Len(EvsOf(events, "loadFailed")) = 1
           /\ EvsOf(events, "loaded") = <<>>
           /\ FrameEvs(events) = <<>>
           /\ video_capture = "None" /\ open_handles = 0
           /\ playback_state = STATE_STOPPED
           /\ frame_count = 0 /\ current_frame_no = -1

\* C9 witness: with a video loaded, a file that opens but reports no frames
C9_Witness ==
    /\ lastOp = "load" /\ lastLoad.opened /\ lastLoad.rfc <= 0
    /\ events = <<StateEv(STATE_STOPPED), LoadFailedEv>>

\* C10: load_video while a video is open, in any playback state, releases it
\* first: the state change to Stopped precedes every event of the new video,
\* the timer ends disarmed, the old handle is closed, and never are two
\* decoder handles open.
C10_LoadReleasesFirst ==
    [][(lastOp' = "load" /\ Loaded)
        => /\ events' # <<>> /\ events'[1] = StateEv(STATE_STOPPED)
           /\ ~timer_active'
           /\ peak_handles' <= 1
           /\ open_handles' = (IF video_capture' = "Open" THEN 1 ELSE 0)]_vars

\* C10 witness: a second video loaded over an open one
C10_Witness ==
    /\ lastOp = "load" /\ Loaded /\ Len(events) = 4
    /\ events[1] = StateEv(STATE_STOPPED) /\ events[4].t = "loaded"
    /\ open_handles = 1 /\ peak_handles = 1

\* the controller's own fields, the decoder position and the open handles
ctrl == <<video_capture, fps, frame_count, duration_s, current_frame_no,
          playback_speed, playback_state, timer_active, timer_interval,
          decoder_pos, open_handles>>

\* C11: release() disarms the timer, closes the handle and sets
\* frame_count = 0, fps = fallback, current_frame_no = -1, state = Stopped; a
\* release() with nothing loaded, such as a second release() in a row,
\* changes no state and emits no event.
C11_ReleaseIdempotent ==
    [][(lastOp' = "release")
        => /\ ~timer_active' /\ video_capture' = "None" /\ open_handles' = 0
           /\ frame_count' = 0 /\ fps' = 30 /\ duration_s' = NoDur
           /\ current_frame_no' = -1 /\ playback_state' = STATE_STOPPED
           /\ events' = (IF playback_state = STATE_STOPPED
                         THEN <<>> ELSE <<StateEv(STATE_STOPPED)>>)
           /\ (lastOp = "release" \/ ~Loaded)
                => (ctrl' = ctrl /\ events' = <<>>)]_vars

\* C11 witness: a release() that closed a loaded video
C11_Witness ==
    /\ lastOp = "release" /\ events = <<StateEv(STATE_STOPPED)>>
    /\ current_frame_no = -1 /\ open_handles = 0 /\ playback_speed = 100

SeekOk == Seek /\ lastRd' = "ok" /\ current_frame_no' = 0

\* C12: a seek(f) whose decoder read fails leaves current_frame_no
\* unchanged, emits exactly one frame event, carrying the previous position
\* and an empty image, emits no error or load-failed event, keeps the handle
\* open, and a later seek can succeed.
C12_SeekReadFailure ==
    /\ [][(lastOp' = "seek" /\ lastRd' = "fail")
            => /\ current_frame_no' = current_frame_no
               /\ FrameEvs(events') =
                      <<FrameEv(current_frame_no, "empty", -1)>>
               /\ EvsOf(events', "error") = <<>>
               /\ EvsOf(events', "loadFailed") = <<>>
               /\ EvsOf(events', "loaded") = <<>>
               /\ video_capture' = "Open" /\ open_handles' = 1
               /\ frame_count' = frame_count]_vars
    /\ []((lastOp = "seek" /\ lastRd = "fail") => ENABLED SeekOk)

\* C12 witness: a failed seek away from frame 1 of a paused video
C12_Witness ==
    /\ lastOp = "seek" /\ lastRd = "fail" /\ lastArg = 0
    /\ current_frame_no = 1 /\ events = <<FrameEv(1, "empty", -1)>>

\* C13: a timer tick whose decoder read fails while Playing moves to Paused
\* with the timer disarmed and then emits an empty-image frame event for the
\* unchanged previous position; the handle stays open and frame_count is
\* unchanged.
C13_TickReadFailure ==
    [][(lastOp' = "tick" /\ lastRd' = "fail")
        => /\ playback_state = STATE_PLAYING
           /\ playback_state' = STATE_PAUSED /\ ~timer_active'
           /\ events' = <<StateEv(STATE_PAUSED),
                          FrameEv(current_frame_no, "empty", -1)>>
           /\ current_frame_no' = current_frame_no
           /\ video_capture' = "Open" /\ open_handles' = 1
           /\ frame_count' = frame_count]_vars

\* C13 witness: playback of a three-frame video stopped by a failed read
C13_Witness ==
    /\ lastOp = "tick" /\ lastRd = "fail" /\ frame_count = 3
    /\ current_frame_no = 1 /\ playback_state = STATE_PAUSED

\* C14: no decoder exception raised during an operation propagates out of
\* the controller; each is turned into a load-failed event, an error event
\* or an empty-image frame event.
C14_NoExceptionEscapes ==
    /\ ~escaped
    /\ lastRd = "raise"
        => \E i \in 1..Len(events) :
               \/ events[i].t \in {"loadFailed", "error"}
               \/ (events[i].t = "frame" /\ events[i].img = "empty")

NoHandleOps ==
    {"seek", "play", "pause", "next_frame", "prev_frame", "set_speed", "tick"}

\* C15 (as stated): with no handle open, seek, play, pause, the steps,
\* set_speed and the timer callback leave the whole controller state
\* unchanged, the speed included, and emit no event.
C15_AllNoOpsUnloaded ==
    [][(~Loaded /\ lastOp' \in NoHandleOps)
        => (ctrl' = ctrl /\ events' = <<>>)]_vars

\* C15 (amended): with no handle open, seek, play, pause, the steps and the
\* timer callback leave the whole controller state unchanged and emit no
\* event; set_speed(m) emits no event and changes nothing but the stored
\* speed, which becomes clamp(m, 0.1, 10.0).
C15_NoOpsUnloaded ==
    [][(~Loaded /\ lastOp' \in NoHandleOps)
        => /\ events' = <<>> /\ ~escaped'
           /\ <<video_capture, fps, frame_count, duration_s, current_frame_no,
                playback_state, timer_active, timer_interval, decoder_pos,
                open_handles>>' =
              <<video_capture, fps, frame_count, duration_s, current_frame_no,
                playback_state, timer_active, timer_interval, decoder_pos,
                open_handles>>
           /\ playback_speed' = (IF lastOp' = "set_speed"
                                 THEN Clamp(lastArg', 1, 100)
                                 ELSE playback_speed)]_vars

\* C15 witness: a speed above the range set with nothing loaded
C15_Witness ==
    /\ ~Loaded /\ lastOp = "set_speed" /\ lastArg = 150
    /\ playback_speed = 100 /\ events = <<>> /\ ~timer_active

StepOps == {"next_frame", "prev_frame"}

\* C16 (as stated): a step on a loaded video pauses playback if it is
\* Playing and moves current_frame_no by exactly +1 / -1 with one frame
\* event; at the last frame (resp. frame 0) it emits no frame event and
\* leaves current_frame_no unchanged; the controller is not Playing after it.
C16_StepAlwaysMoves ==
    [][(lastOp' \in StepOps /\ Loaded)
        => LET d == IF lastOp' = "next_frame" THEN 1 ELSE -1
               edge == IF lastOp' = "next_frame" THEN frame_count - 1 ELSE 0
           IN  /\ playback_state' # STATE_PLAYING
               /\ IF current_frame_no = edge
                  THEN /\ FrameEvs(events') = <<>>
                       /\ current_frame_no' = current_frame_no
                  ELSE /\ Len(FrameEvs(events')) = 1
                       /\ current_frame_no' = current_frame_no + d]_vars

\* C16 (amended): a step on a loaded video pauses playback if it is Playing;
\* its target is min(position + 1, frame_count - 1), resp.
\* max(position - 1, 0), one frame away from any position in the video.  At
\* the last frame (resp. frame 0) the target is the position and the step
\* emits no frame event and changes no position.  Otherwise it seeks: a
\* successful read moves the position to the target with one frame event, a
\* failed read leaves it unchanged with one empty-image frame event, a
\* raised exception leaves it unchanged with an error event.  The controller
\* is Paused with the timer disarmed after a step.
C16_Step ==
    [][(lastOp' \in StepOps /\ Loaded)
        => LET t == IF lastOp' = "next_frame"
                    THEN Min(current_frame_no + 1, frame_count - 1)
                    ELSE Max(current_frame_no - 1, 0)
               d == IF lastOp' = "next_frame" THEN 1 ELSE -1
           IN  /\ playback_state' = STATE_PAUSED /\ ~timer_active'
               /\ (playback_state = STATE_PLAYING)
                    => (events' # <<>> /\ events'[1] = StateEv(STATE_PAUSED))
               /\ (current_frame_no >= 0) => (t - current_frame_no \in {0, d})
               /\ IF t = current_frame_no
                  THEN /\ FrameEvs(events') = <<>> /\ lastRd' = "none"
                       /\ current_frame_no' = current_frame_no
                  ELSE CASE lastRd' = "ok" ->
                               /\ current_frame_no' = t
                               /\ FrameEvs(events') = <<FrameEv(t, "img", t)>>
                         [] lastRd' = "fail" ->
                               /\ current_frame_no' = current_frame_no
                               /\ FrameEvs(events') =
                                    <<FrameEv(current_frame_no, "empty", -1)>>
                         [] OTHER ->
                               /\ current_frame_no' = current_frame_no
                               /\ FrameEvs(events') = <<>>
                               /\ EvsOf(events', "error") = <<ErrorEv>>]_vars

\* C16 witness: a step forward from frame 0 taken during playback
C16_Witness ==
    /\ lastOp = "next_frame" /\ lastRd = "ok" /\ current_frame_no = 1
    /\ events = <<StateEv(STATE_PAUSED), FrameEv(1, "img", 1)>>

\* C17: set_speed(m) stores clamp(m, 0.1, 10.0); while Playing it re-arms
\* the timer with the interval recomputed from the new speed, the state stays
\* Playing, no state-changed event is emitted and current_frame_no is
\* unchanged; while not Playing the timer stays disarmed.
C17_SetSpeed ==
    [][(lastOp' = "set_speed")
        => /\ playback_speed' = Clamp(lastArg', 1, 100)
           /\ events' = <<>>
           /\ playback_state' = playback_state
           /\ current_frame_no' = current_frame_no
           /\ IF playback_state = STATE_PLAYING
              THEN /\ timer_active'
                   /\ timer_interval' =
                        timer_interval_ms(fps, Clamp(lastArg', 1, 100))
              ELSE ~timer_active' /\ timer_interval' = timer_interval]_vars

\* C17 witness: the speed raised past the range during playback at 24 fps
C17_Witness ==
    /\ lastOp = "set_speed" /\ lastArg = 150 /\ playback_speed = 100
    /\ playback_state = STATE_PLAYING /\ timer_active
    /\ fps = 24 /\ timer_interval = 10

RoundDiv(a, b) == (2 * a + b) \div (2 * b)

\* C18 (as stated): the interval of the armed timer is
\* max(10, round(1000 / (fps * speed))) ms, rounded to the nearest integer
\* (42 ms for fps = 24 and speed = 1).
C18_IntervalRounded ==
    playback_state = STATE_PLAYING
        => timer_interval = Max(10, RoundDiv(10000, fps * playback_speed))

\* C18 (amended): the interval of the armed timer is
\* max(10, floor(1000 / (fps * speed))) ms, the quotient truncated to an
\* integer (41 ms for fps = 24 and speed = 1).
C18_IntervalTruncated ==
    /\ playback_state = STATE_PLAYING
        => timer_interval = Max(10, 10000 \div (fps * playback_speed))
    /\ (playback_state = STATE_PLAYING /\ fps = 24 /\ playback_speed = 10)
        => timer_interval = 41

\* C18 witness: playback at 24 fps and speed 1.0
C18_Witness ==
    /\ playback_state = STATE_PLAYING /\ timer_active
    /\ fps = 24 /\ playback_speed = 10 /\ timer_interval = 41

\* the rendering the claim describes: the time rounded to whole milliseconds
\* first, so that a fraction rounding up to 1000 ms carries into the seconds
CarriedTimestamp(time) ==
    LET total == RoundHalfEven(1000 * time.num, time.den)
        ms == total % 1000
        whole == total \div 1000
    IN  ZeroPad(Digits(whole \div 3600), 2) \o <<":">>
            \o ZeroPad(Digits((whole \div 60) % 60), 2) \o <<":">>
            \o ZeroPad(Digits(whole % 60), 2) \o <<".">>
            \o ZeroPad(Digits(ms), 3)

\* C19: for every finite non-negative time the timestamp has the form
\* HH:MM:SS.mmm with a millisecond field of exactly three digits; a fraction
\* that rounds up to 1000 ms carries into the seconds field (1.9996 s is
\* 00:00:02.000).
C19_TimestampCarries ==
    (lastOp \in {"format_timestamp", "emit_frame"} /\ ~ts_in.nan
        /\ ts_in.num >= 0)
        => /\ Len(ts_out) = 12
           /\ ts_out[9] = "."
           /\ ts_out = CarriedTimestamp(ts_in)

\* C20: on a loaded video every interval of the collection has a non-empty
\* behavior and frames with 0 <= start <= end <= frame_count - 1, whatever
\* imports, additions, table edits, removals and refreshes came before.
C20_IntervalsInRange ==
    (video_capture = "Open" /\ frame_count > 0)
        => \A i \in 1..Len(annotations) :
               /\ annotations[i].Behavior # ""
               /\ 0 <= annotations[i].Start_Frame
               /\ annotations[i].Start_Frame <= annotations[i].End_Frame
               /\ annotations[i].End_Frame <= frame_count - 1

Markers(ann) == SelectSeq(ann, LAMBDA a : a.Behavior = VIDEO_END)
VideoLoaded == video_capture = "Open" /\ frame_count > 0
LastMarker(ann, fc) == Interval(VIDEO_END, fc - 1, fc - 1)

\* C21 as stated: on a loaded video the collection always contains the
\* terminal marker, and every terminal marker in it sits at the last frame
\* (start = end = frame_count - 1), whatever was imported or edited.
C21_MarkerPinned ==
    VideoLoaded =>
        /\ HasMarker(annotations)
        /\ \A i \in 1..Len(annotations) :
               annotations[i].Behavior = VIDEO_END
                   => annotations[i] = LastMarker(annotations, frame_count)

\* C21 amended: after every operation a non-empty collection contains a
\* terminal marker; when a refresh appended it, it is the last element, the
\* only marker, and sits at frame_count - 1; when no refresh appended one, an
\* operation other than a load leaves no more markers than there were.  (An
\* empty collection gets no marker, and a marker already present keeps the
\* frames it has.)
C21_MarkerAppended ==
    [][/\ annotations' # <<>> => HasMarker(annotations')
       /\ marker_appended' =>
              /\ annotations'[Len(annotations')]
                     = LastMarker(annotations', frame_count')
              /\ Len(Markers(annotations')) = 1
       /\ (~marker_appended' /\ lastOp' # "load_video") =>
              Len(Markers(annotations')) <= Len(Markers(annotations))]_vars

C21_Witness ==
    /\ lastOp = "remove_annotation"
    /\ marker_appended
    /\ Len(annotations) = 2
    /\ annotations[1].Behavior # VIDEO_END

\* C22: whenever both a staged start and a staged end are set, start <= end;
\* a mark_end at a frame before the staged start changes neither staged
\* value, and a mark_start at a frame after the staged end stores the start
\* and clears the staged end.
C22_StagedOrdered ==
    /\ []((current_start_frame # None /\ current_end_frame # None)
              => Val(current_start_frame) <= Val(current_end_frame))
    /\ [][/\ (/\ lastOp' = "mark_end"
              /\ current_start_frame # None
              /\ current_frame_no < Val(current_start_frame))
                  => UNCHANGED <<current_start_frame, current_end_frame>>
          /\ (/\ lastOp' = "mark_start"
              /\ current_end_frame # None
              /\ current_frame_no > Val(current_end_frame))
                  => (/\ current_start_frame' = Some(current_frame_no)
                      /\ current_end_frame' = None)]_vars

\* a mark_end was tried at frame 0 with the start staged at the last frame
C22_Witness ==
    /\ lastOp = "mark_end"
    /\ current_start_frame = Some(MaxStoreFrames - 1)
    /\ current_frame_no = 0
    /\ current_end_frame = None

\* C23: add_annotation changes neither the collection, the staged markers nor
\* the dirty flag when the behavior is empty, the staged start or end is
\* unset, or start > end; otherwise the collection becomes the old one with
\* {behavior, start, end} appended (and after it the terminal marker, if the
\* refresh had to add one), the dirty flag is set and both markers are unset.
C23_AddAnnotation ==
    [][lastOp' = "add_annotation" =>
          IF \/ lastBehavior' = ""
             \/ current_start_frame = None
             \/ current_end_frame = None
             \/ Val(current_start_frame) > Val(current_end_frame)
          THEN UNCHANGED <<annotations, current_start_frame,
                           current_end_frame, unsaved_changes>>
          ELSE LET added == Append(annotations,
                                   Interval(lastBehavior',
                                            Val(current_start_frame),
                                            Val(current_end_frame)))
               IN  /\ annotations' \in
                         {added,
                          Append(added, LastMarker(added, frame_count))}
                   /\ unsaved_changes'
                   /\ current_start_frame' = None
                   /\ current_end_frame' = None]_vars

C23_Witness ==
    /\ lastOp = "add_annotation"
    /\ lastBehavior = "rearing"
    /\ unsaved_changes
    /\ current_start_frame = None
    /\ current_end_frame = None
    /\ Len(annotations) = 2
    /\ annotations[1] = Interval("rearing", 0, MaxStoreFrames - 1)

\* the bounds a table edit of row i asks for, and whether the claim calls it
\* invalid
EditStart(i, col, cell) ==
    IF col = "start" THEN cell.v ELSE annotations[i].Start_Frame
EditEnd(i, col, cell) ==
    IF col = "end" THEN cell.v ELSE annotations[i].End_Frame
EditInvalid(i, col, cell) ==
    \/ ~cell.ok
    \/ EditStart(i, col, cell) \notin 0..(frame_count - 1)
    \/ EditEnd(i, col, cell) \notin 0..(frame_count - 1)
    \/ EditStart(i, col, cell) > EditEnd(i, col, cell)
Edited(i, col, cell) ==
    [annotations EXCEPT ![i] = Interval(@.Behavior, EditStart(i, col, cell),
                                        EditEnd(i, col, cell))]
EditInputs ==
    {e \in [i : 1..Len(annotations), col : {"start", "end"},
            cell : CellInputs] : TRUE}

\* C24 as stated: in every state, a table edit that is invalid (bound outside
\* [0, frame_count - 1], start > end, or text that is no integer) leaves the
\* collection and the dirty flag as they are, and every valid edit puts the
\* new bounds in place and sets the dirty flag.
C24_ValidEditSetsDirty ==
    \A e \in EditInputs :
        LET r == on_table_item_changed(Window, e.i, e.col, e.cell)
        IN  IF EditInvalid(e.i, e.col, e.cell)
            THEN r.ann = annotations /\ r.dirty = unsaved_changes
            ELSE r.ann = Edited(e.i, e.col, e.cell) /\ r.dirty

\* C24 amended: an invalid edit leaves the collection and the dirty flag as
\* they are; a valid edit puts the new bounds in place, and sets the dirty
\* flag when a bound differs from the stored one (a valid edit that retypes
\* the stored bounds leaves the dirty flag as it is).
C24_Edit ==
    \A e \in EditInputs :
        LET r == on_table_item_changed(Window, e.i, e.col, e.cell)
        IN  IF EditInvalid(e.i, e.col, e.cell)
            THEN r.ann = annotations /\ r.dirty = unsaved_changes
            ELSE /\ r.ann = Edited(e.i, e.col, e.cell)
                 /\ r.dirty = (unsaved_changes
                                  \/ r.ann # annotations)

\* a saved interval [0, last] was edited to [last, last]
C24_Witness ==
    /\ lastOp = "on_table_item_changed"
    /\ unsaved_changes
    /\ lastImport = NoImport
    /\ Len(annotations) = 2
    /\ annotations[1] = Interval("rearing", MaxStoreFrames - 1,
                                 MaxStoreFrames - 1)
    /\ annotations[2] = LastMarker(annotations, MaxStoreFrames)

\* rows of a file as the claims sort them
Parses(r) == r.Start_Frame.ok /\ r.End_Frame.ok
FramesValid(r) ==
    /\ 0 <= r.Start_Frame.v
    /\ 0 <= r.End_Frame.v
    /\ r.Start_Frame.v <= r.End_Frame.v
RowInterval(r) == Interval(r.Behavior, r.Start_Frame.v, r.End_Frame.v)
RowIntervals(rows) == [i \in 1..Len(rows) |-> RowInterval(rows[i])]
AllRows(rows, P(_)) == \A i \in 1..Len(rows) : P(rows[i])

\* C25: when the file read by an import has rows that all name a behavior and
\* parse, some of them with a negative bound or start > end, the import
\* succeeds without a dialog and yields exactly the other rows in file order;
\* the collection is that list, followed by the terminal marker if it is
\* non-empty and holds none.
C25_InvalidRowsOmitted ==
    LET rows == lastImport.file.rows
        valid == RowIntervals(SelectSeq(rows, FramesValid))
    IN  (/\ lastImport.file.kind = "rows"
         /\ AllRows(rows, LAMBDA r : Parses(r) /\ r.Behavior # "")
         /\ ~AllRows(rows, FramesValid))
            => /\ lastImport.ret
               /\ lastImport.dialog = "none"
               /\ lastImport.ann = valid
               /\ annotations \in
                      {valid, Append(valid, LastMarker(valid, frame_count))}

C25_Witness ==
    /\ lastImport.file = MixedFile
    /\ annotations = <<Interval("attack", 0, 0), Interval("rearing", 0, 1),
                       LastMarker(annotations, MaxStoreFrames)>>

\* C26: when a row of the file read by an import has a Start Frame or End
\* Frame that is no integer, the import is not aborted: it succeeds and yields
\* every row that parses and has valid frames, in file order.
C26_UnparsableRowSkipped ==
    LET rows == lastImport.file.rows
        kept == RowIntervals(SelectSeq(rows, LAMBDA r :
                                 Parses(r) /\ FramesValid(r)
                                           /\ r.Behavior # ""))
    IN  (lastImport.file.kind = "rows" /\ ~AllRows(rows, Parses))
            => lastImport.ret /\ lastImport.ann = kept

\* C27: an import that finds no annotation file leaves the collection empty
\* and shows no error; an import of a file without one of the required
\* columns fails as a whole: it returns False, shows a warning, and leaves
\* the collection empty and the dirty flag false.
C27_MissingFileAndColumns ==
    /\ lastImport.file.kind = "absent"
           => /\ lastImport.dialog = "none"
              /\ lastImport.ann = <<>>
              /\ annotations = <<>>
    /\ lastImport.file.kind = "nocols"
           => /\ ~lastImport.ret
              /\ lastImport.dialog = "warning"
              /\ lastImport.ann = <<>>
              /\ annotations = <<>>
              /\ ~unsaved_changes

C27_Witness ==
    /\ lastOp = "load_video"
    /\ VideoLoaded
    /\ lastImport.file.kind = "nocols"
    /\ annotations = <<>>

\* the two lists hold the same tuples the same number of times
SameTuples(a, b) ==
    /\ Len(a) = Len(b)
    /\ \A i \in 1..Len(a) :
           Cardinality({j \in 1..Len(a) : a[j] = a[i]})
               = Cardinality({j \in 1..Len(b) : b[j] = a[i]})
Ascending(rows) ==
    \A i, j \in 1..Len(rows) :
        i < j => rows[i].Start_Frame.v <= rows[j].Start_Frame.v

\* C28: an export leaves the collection as it is; a successful one writes
\* every interval of the collection, none left out, in ascending start-frame
\* order and clears the dirty flag; one that writes no file (the directory
\* cannot be made, the file cannot be written) leaves the dirty flag as it
\* was.
C28_Export ==
    [][lastOp' = "export" =>
          /\ annotations' = annotations
          /\ IF written' # NoFile
             THEN /\ written'.kind = "rows"
                  /\ AllRows(written'.rows, Parses)
                  /\ SameTuples(RowIntervals(written'.rows), annotations)
                  /\ Ascending(written'.rows)
                  /\ ~unsaved_changes'
             ELSE unsaved_changes' = unsaved_changes]_vars

\* an export has written a collection that was not in start-frame order
C28_Witness ==
    /\ lastOp = "export"
    /\ written # NoFile
    /\ ~unsaved_changes
    /\ \E i, j \in 1..Len(annotations) :
           i < j /\ annotations[i].Start_Frame > annotations[j].Start_Frame

\* C29: when a load imports the file an export has just written, the import
\* succeeds and yields the same (behavior, start, end) tuples, each as many
\* times, as the collection that was exported.
C29_RoundTrip ==
    [][(lastOp' = "load_video" /\ written # NoFile
            /\ lastImport'.file = written)
          => /\ lastImport'.ret
             /\ SameTuples(lastImport'.ann, annotations)]_vars

\* the file imported holds the terminal marker of the video at its last frame,
\* which only an export writes, and another interval starting at that frame
C29_Witness ==
    /\ lastOp = "load_video"
    /\ lastImport.ret
    /\ frame_count > 1
    /\ Len(lastImport.file.rows) = 2
    /\ \E i \in 1..2 :
           lastImport.file.rows[i]
               = Interval(VIDEO_END, Cell(frame_count - 1),
                          Cell(frame_count - 1))
    /\ \E i \in 1..2 : lastImport.ann[i].Behavior # VIDEO_END
    /\ lastImport.ann[1].Start_Frame = lastImport.ann[2].Start_Frame

\* C30: a load replaces the collection whatever it held before. When the
\* load completes the collection is the list imported from the new video's
\* annotation file, followed by the terminal marker if that list is non-empty
\* and holds none, the staged start and end are unset and the dirty flag is
\* false; when the load fails the collection is empty.
C30_LoadReplaces ==
    [][lastOp' = "load_video" =>
          IF EvsOf(events', "loaded") # <<>>
          THEN /\ annotations'
                     = IF lastImport'.ann = <<>> \/ HasMarker(lastImport'.ann)
                       THEN lastImport'.ann
                       ELSE Append(lastImport'.ann,
                                   LastMarker(lastImport'.ann, frame_count'))
               /\ current_start_frame' = None
               /\ current_end_frame' = None
               /\ ~unsaved_changes'
          ELSE /\ EvsOf(events', "loadFailed") # <<>>
               /\ annotations' = <<>>]_vars

\* a completed load that found intervals of the previous video and whose
\* import brought others in
C30_Witness ==
    /\ lastOp = "load_video"
    /\ EvsOf(events, "loaded") # <<>>
    /\ lastImport.ret
    /\ replaced
    /\ lastImport.ann # <<>>
    /\ annotations = Append(lastImport.ann,
                            LastMarker(lastImport.ann, frame_count))
    /\ current_start_frame = None
    /\ ~unsaved_changes

\* C31 as stated: a confirmed removal leaves the collection equal to the
\* previous one minus the selected interval, the terminal marker included, and
\* sets the dirty flag; a declined one leaves both unchanged.
C31_RemovesExactly ==
    \A i \in 1..Len(annotations) :
        /\ remove_annotation(Window, i, "Yes").ann = RemoveAt(annotations, i)
        /\ remove_annotation(Window, i, "Yes").dirty
        /\ remove_annotation(Window, i, "No").ann = annotations
        /\ remove_annotation(Window, i, "No").dirty = unsaved_changes

\* C31 amended: a confirmed removal takes the selected interval out and sets
\* the dirty flag; when intervals remain and none of them is a terminal
\* marker (the marker was the one removed), the refresh appends a marker at
\* the last frame. A declined removal leaves both unchanged.
C31_Remove ==
    \A i \in 1..Len(annotations) :
        LET rest == RemoveAt(annotations, i)
            yes == remove_annotation(Window, i, "Yes")
            no == remove_annotation(Window, i, "No")
        IN  /\ yes.ann = IF rest = <<>> \/ HasMarker(rest) THEN rest
                         ELSE Append(rest, LastMarker(rest, frame_count))
            /\ yes.dirty
            /\ no.ann = annotations
            /\ no.dirty = unsaved_changes

\* the terminal marker was removed from beside another interval, and the
\* refresh put one back
C31_Witness ==
    /\ lastOp = "remove_annotation"
    /\ unsaved_changes
    /\ marker_appended
    /\ Len(annotations) = 2
    /\ annotations[2] = LastMarker(annotations, frame_count)

\* C33: every frame event that carries an image reports the decoder position
\* the image was read from, after any interleaving of seeks (failed ones
\* included), steps, play and timer ticks.
C33_IndexIsDecoderPosition ==
    \A i \in 1..Len(events) :
        (events[i].t = "frame" /\ events[i].img = "img")
            => events[i].n = events[i].src

C37_PlaybackEnds ==
    (playback_state = STATE_PLAYING)
        ~> (playback_state = STATE_PAUSED /\ ~timer_active)

\* an uninterrupted run of two ticks or more read the last frame and paused
C37_Witness ==
    /\ lastOp = "tick"
    /\ lastRd = "ok"
    /\ run.on
    /\ run.ticks >= 2
    /\ current_frame_no = frame_count - 1
    /\ playback_state = STATE_PAUSED
    /\ ~timer_active

\* C32: no controller operation is invoked from inside the delivery of a
\* frame event: the controller call that emitted it returns before the next
\* one starts, whether or not the slider is being held.
C32_NoReentrantCall == nested = 0

\* a frame event for a position other than the slider's was delivered while
\* the slider was held (the read of a drag failed), and the slider stayed
C32_Witness ==
    /\ lastOp = "slider_moved"
    /\ slider_is_pressed
    /\ Len(shown) = 1
    /\ shown[1].n # slider_value
    /\ slider_value = lastArg

\* C39: with every frame event delivered to the window, the window's copy of
\* the frame count equals the controller's, so the maximum index on the label
\* is frame_count - 1, the first frame event of a newly loaded video included.
C39_LabelMaxIsLastFrame ==
    \A i \in 1..Len(shown) : shown[i].max = shown[i].fc - 1

\* C35: whenever the dirty flag is set and the destination is writable, an
\* export succeeds, clears the dirty flag and leaves the annotation file equal
\* to the current collection, also when every interval has been removed and
\* the collection is empty.
C35_DirtyCollectionIsSaved ==
    (unsaved_changes /\ current_video_path # None)
        => \A order \in SortedOrders(annotations) :
               LET r == export_annotations(Window, "ok", order)
               IN  /\ r.ret
                   /\ ~r.dirty
                   /\ r.written.kind = "rows"
                   /\ SameTuples(RowIntervals(r.written.rows), annotations)

\* what the file holds, as intervals: nothing when there is no file or no data
FileTuples(file) ==
    IF file.kind = "rows" THEN RowIntervals(file.rows) ELSE <<>>
WithMarker(ann, fc) ==
    IF ann = <<>> \/ HasMarker(ann) THEN ann
    ELSE Append(ann, LastMarker(ann, fc))
ImportedFrom(file) ==
    IF file.kind = "rows" /\ AllRows(file.rows, Parses)
    THEN [i \in 1..Len(SelectSeq(file.rows, FramesValid)) |->
             LET r == SelectSeq(file.rows, FramesValid)[i]
             IN  Interval(str_behavior(r.Behavior), r.Start_Frame.v,
                          r.End_Frame.v)]
    ELSE <<>>

\* C36 as stated: while a video is loaded and the dirty flag is false, the
\* collection holds the same tuples as the video's annotation file as it was
\* last imported (nothing when there is no file).
C36_CleanEqualsFile ==
    (lastOp = "load_video" /\ VideoLoaded /\ ~unsaved_changes
        /\ lastImport.file.kind \in {"absent", "empty", "rows"})
        => SameTuples(annotations, FileTuples(lastImport.file))

\* C36 amended: a completed load leaves the dirty flag false and the
\* collection equal to the rows of the file that the import keeps (all of
\* them when every frame cell parses, less the rows with a negative bound or
\* start > end, an empty behavior read as 'nan'; none when the import fails
\* or there is no file), followed by the terminal marker if that list is
\* non-empty and holds none; a successful export leaves the flag false and
\* the file equal to the collection; any other operation that changes the
\* collection sets the flag, and none clears it.
C36_CleanTracksFile ==
    [][/\ (lastOp' = "load_video" /\ EvsOf(events', "loaded") # <<>>)
             => /\ ~unsaved_changes'
                /\ annotations'
                      = WithMarker(ImportedFrom(lastImport'.file),
                                   frame_count')
       /\ (lastOp' = "export" /\ written' # NoFile)
             => /\ ~unsaved_changes'
                /\ SameTuples(annotations', FileTuples(written'))
       /\ (lastOp' \notin {"load_video", "export"})
             => /\ annotations' # annotations => unsaved_changes'
                /\ unsaved_changes => unsaved_changes']_vars

\* a clean collection that differs from the file it was imported from: the
\* file had an inverted row, and the marker was appended
C36_Witness ==
    /\ lastOp = "load_video"
    /\ VideoLoaded
    /\ ~unsaved_changes
    /\ lastImport.file = MixedFile
    /\ Len(annotations) = 3
    /\ annotations[3] = LastMarker(annotations, frame_count)

SwitchOps ==
    {"select_video", "select_placeholder", "select_folder", "blind_toggled",
     "close"}

\* C34: selecting another video or the placeholder, changing the folder,
\* toggling blind mode or closing the window while the dirty flag is set
\* leaves the current video, the collection and the dirty flag unchanged,
\* unless the user answered Discard, or answered Save and the export wrote
\* the file.
C34_DirtyIntervalsKept ==
    [][(lastOp' \in SwitchOps /\ unsaved_changes)
          => \/ prompt' = "Discard"
             \/ prompt' = "Save" /\ written' # NoFile
             \/ UNCHANGED <<annotations, unsaved_changes,
                            current_video_path>>]_vars

\* another video was selected, Save was answered, the export failed, and the
\* edited intervals of the current video are still there
C34_Witness ==
    /\ lastOp = "select_video"
    /\ prompt = "Save"
    /\ written = NoFile
    /\ unsaved_changes
    /\ Len(annotations) = 2
    /\ current_video_path # None
    /\ video_capture = "Open"

====
